---------------------------- MODULE Spec2Model ----------------------------
(***************************************************************************)
(* Model of the AMD GPU gpu_metrics decoder, the caching MetricsReader and *)
(* the recovery path of AmdgpuSensor (waysensor-rs, sensors/amd-gpu).      *)
(*                                                                         *)
(* Representation choices:                                                 *)
(*   - a byte slice is a sequence of naturals 0..255; Rust's 0-based       *)
(*     data[i] is data[i + 1] here;                                        *)
(*   - a u16 is a natural; a u64 is the tuple of its 8 little-endian       *)
(*     base-256 digits (TLC's integers are 32 bits wide);                  *)
(*   - Option<T> is a sequence: << >> is None and <<v>> is Some(v);        *)
(*   - a Result is a record with tag "Ok", "Err" or "Panic";               *)
(*   - an Instant is the value of the clock `now`, in seconds.             *)
(***************************************************************************)
EXTENDS Integers, Sequences, FiniteSets, TLC

VARIABLES
    file,               \* content of the gpu_metrics file, or Missing
    result,             \* outcome of the last decode applied to `file`
    now,                \* the monotonic clock (Instant::now()), seconds
    cache_strategy,     \* MetricsReader.cache_strategy
    cache,              \* MetricsReader.cache: Option<CachedMetrics>
    memory_map,         \* MetricsReader.memory_map: Option<Mmap>
    error_count,        \* MetricsReader.error_count
    last_successful_read, \* MetricsReader.last_successful_read
    last_metrics,       \* AmdgpuSensor.last_metrics
    consecutive_errors, \* AmdgpuSensor.consecutive_errors
    last_error_time,    \* AmdgpuSensor.last_error_time
    ret,                \* what the last AmdgpuSensor/MetricsReader call returned
    failed_since_ok,    \* history: failed underlying reads since the last successful one
    settings,           \* AmdgpuSensor: config, thresholds, output format, display flags
    stdout,             \* the lines the binary has printed
    args,               \* the inputs of the function or constructor under study
    sysfs               \* the cards under /sys/class/drm

vars == <<file, result, now, cache_strategy, cache, memory_map, error_count,
          last_successful_read, last_metrics, consecutive_errors,
          last_error_time, ret, failed_since_ok, settings, stdout, args, sysfs>>

decodeVars == <<file, result>>
sensorVars == <<now, cache_strategy, cache, memory_map, error_count,
                last_successful_read, last_metrics, consecutive_errors,
                last_error_time, ret, failed_since_ok, settings, stdout, args, sysfs>>

----------------------------------------------------------------------------
(* Bounds of the model *)

MaxFormatRev == 3       \* format_revision ranges over 0..MaxFormatRev
MaxContentRev == 4      \* content_revision ranges over 0..MaxContentRev
MaxFill == 1            \* body fill patterns 0..MaxFill
MaxTime == 10           \* the clock runs from 0 to MaxTime
MaxErrors == 4          \* consecutive_errors is capped at MaxErrors
MaxReadCount == 2       \* CachedMetrics.read_count is capped at MaxReadCount
MaxAgeSecs == 3         \* max_age of the Basic and Aggressive strategies, seconds
MaxConfigTime == 1      \* the clock of the configuration specification stops here

Max(a, b) == IF a >= b THEN a ELSE b
Min(a, b) == IF a <= b THEN a ELSE b

None == << >>
Some(v) == <<v>>
IsSome(o) == Len(o) = 1
IsNone(o) == Len(o) = 0
Unwrap(o) == o[1]

----------------------------------------------------------------------------
(* The file and its bytes *)

Missing == [exists |-> FALSE]

\* header structure_size values written into the blob
StructureSizes == {0, 1, 2, 3, 4, 5, 95, 96, 100, 106, 118, 120, 126, 1024, 1025, 65535}
\* actual number of bytes the file holds
FileLens == {3, 4, 5, 95, 96, 99, 100, 105, 106, 117, 118, 119, 120, 125, 126}

Blob(size, fmt, rev, len, fill) ==
    [exists |-> TRUE, size |-> size, fmt |-> fmt, rev |-> rev, len |-> len, fill |-> fill]

\* Byte i (0-based) of the file: the 4-byte header, little-endian, then a body
\* pattern (fill 0: all zero; fill 1: bytes 12 and 13 are 60 and 61; ...).
FileByte(f, i) ==
    CASE i = 0 -> f.size % 256
      [] i = 1 -> f.size \div 256
      [] i = 2 -> f.fmt
      [] i = 3 -> f.rev
      [] OTHER -> (f.fill * (i + 48)) % 256

FileBytes(f) == [i \in 1..f.len |-> FileByte(f, i - 1)]

----------------------------------------------------------------------------
(* Results *)

NoMetrics == [variant |-> "none"]

Ok(m, calls) ==
    [tag |-> "Ok", kind |-> "", message |-> "", metrics |-> m, calls |-> calls]
Err(kind, message, calls) ==
    [tag |-> "Err", kind |-> kind, message |-> message, metrics |-> NoMetrics, calls |-> calls]
Panic(message, calls) ==
    [tag |-> "Panic", kind |-> "", message |-> message, metrics |-> NoMetrics, calls |-> calls]
\* GpuError::MetricsParsingError{reason}.into() is SensorError::parse(reason)
ParseErr(message, calls) == Err("Parse", message, calls)
\* io::Error converted by `?` through SensorError::Io(#[from])
IoErr(message) == Err("Io", message, {})

----------------------------------------------------------------------------
(* Little-endian helpers *)

u16_from_le_bytes(b0, b1) == b0 + 256 * b1

read_u16_le(data, offset) == u16_from_le_bytes(data[offset + 1], data[offset + 2])

read_u64_le(data, offset) == [k \in 1..8 |-> data[offset + k]]

\* a field of a layout: name, byte offset in the body, width in bytes and
\* element count (1 for a scalar, n for [u16; n])
Field(name, off, w, n) == [name |-> name, off |-> off, w |-> w, n |-> n]

FieldEnd(fd) == fd.off + fd.w * fd.n

\* the value a parser stores for field fd
ReadField(data, fd) ==
    IF fd.n > 1 THEN [i \in 1..fd.n |-> read_u16_le(data, fd.off + (i - 1) * 2)]
    ELSE IF fd.w = 8 THEN read_u64_le(data, fd.off)
    ELSE read_u16_le(data, fd.off)

\* slice indexing panics when an index is not below the length
InBounds(data, fields) == \A fd \in fields : FieldEnd(fd) <= Len(data)

FieldNames(fields) == {fd.name : fd \in fields}
FieldNamed(fields, name) == CHOOSE fd \in fields : fd.name = name

----------------------------------------------------------------------------
(* Header *)

Header(structure_size, format_revision, content_revision) ==
    [structure_size |-> structure_size, format_revision |-> format_revision,
     content_revision |-> content_revision]

\* Header built from the first four bytes of a slice
HeaderOf(bytes) == Header(u16_from_le_bytes(bytes[1], bytes[2]), bytes[3], bytes[4])

\* a version check that lets every content revision of a known family through
is_supported_any_revision(header) == header.format_revision \in {1, 2}

\* Header::is_supported of metrics.rs
is_supported(header) ==
    \/ header.format_revision = 1 /\ header.content_revision \in 0..3
    \/ header.format_revision = 2 /\ header.content_revision \in 0..1
    \/ header.format_revision = 3 /\ header.content_revision = 0

\* the (format_revision, content_revision) pairs of the specification's table
SupportedPairs == {<<1, 0>>, <<1, 1>>, <<1, 2>>, <<1, 3>>, <<2, 0>>, <<2, 1>>}
Pair(header) == <<header.format_revision, header.content_revision>>

----------------------------------------------------------------------------
(* Layouts of metrics.rs *)

V1BaseFields == {
    Field("system_clock_counter", 0, 8, 1),
    Field("temperature_edge", 8, 2, 1),
    Field("temperature_hotspot", 10, 2, 1),
    Field("temperature_mem", 12, 2, 1),
    Field("temperature_vrgfx", 14, 2, 1),
    Field("temperature_vrsoc", 16, 2, 1),
    Field("temperature_vrmem", 18, 2, 1),
    Field("average_gfx_activity", 20, 2, 1),
    Field("average_umc_activity", 22, 2, 1),
    Field("average_mm_activity", 24, 2, 1),
    Field("average_socket_power", 26, 2, 1),
    Field("energy_accumulator", 28, 8, 1),
    Field("average_gfxclk_frequency", 36, 2, 1),
    Field("average_socclk_frequency", 38, 2, 1),
    Field("average_uclk_frequency", 40, 2, 1),
    Field("average_vclk0_frequency", 42, 2, 1),
    Field("average_dclk0_frequency", 44, 2, 1),
    Field("average_vclk1_frequency", 46, 2, 1),
    Field("average_dclk1_frequency", 48, 2, 1),
    Field("current_gfxclk", 50, 2, 1),
    Field("current_socclk", 52, 2, 1),
    Field("current_uclk", 54, 2, 1),
    Field("current_vclk0", 56, 2, 1),
    Field("current_dclk0", 58, 2, 1),
    Field("current_vclk1", 60, 2, 1),
    Field("current_dclk1", 62, 2, 1),
    Field("throttle_status", 64, 8, 1),
    Field("current_fan_speed", 72, 2, 1),
    Field("pcie_link_width", 74, 2, 1),
    Field("pcie_link_speed", 76, 2, 1) }

\* v1.1+ fields
V1Rev1Fields == { Field("gfx_voltage", 78, 2, 1), Field("soc_voltage", 80, 2, 1) }
\* v1.2+ fields
V1Rev2Fields == { Field("mem_voltage", 82, 2, 1), Field("indep_throttle_status", 84, 8, 1) }
\* v1.3+ fields
V1Rev3Fields == { Field("current_socket_power", 92, 2, 1), Field("vcn_activity", 94, 2, 4) }

V1OptionalFields == V1Rev1Fields \cup V1Rev2Fields \cup V1Rev3Fields

V2BaseFields == {
    Field("temperature_core", 16, 2, 8),
    Field("temperature_l3", 32, 2, 2),
    Field("average_core_power", 54, 2, 8),
    Field("current_coreclk", 84, 2, 8),
    Field("current_l3clk", 100, 2, 2),
    Field("system_clock_counter", 0, 8, 1),
    Field("temperature_gfx", 8, 2, 1),
    Field("temperature_soc", 10, 2, 1),
    Field("average_gfx_activity", 36, 2, 1),
    Field("average_mm_activity", 38, 2, 1),
    Field("average_socket_power", 40, 2, 1),
    Field("average_cpu_power", 42, 2, 1),
    Field("average_soc_power", 44, 2, 1),
    Field("average_gfx_power", 46, 2, 1),
    Field("average_gfxclk_frequency", 70, 2, 1),
    Field("average_socclk_frequency", 72, 2, 1),
    Field("average_uclk_frequency", 74, 2, 1),
    Field("average_fclk_frequency", 76, 2, 1),
    Field("average_vclk_frequency", 78, 2, 1),
    Field("average_dclk_frequency", 80, 2, 1),
    Field("current_gfxclk", 82, 2, 1),
    Field("current_socclk", 84, 2, 1),
    Field("current_uclk", 86, 2, 1),
    Field("current_fclk", 88, 2, 1),
    Field("current_vclk", 90, 2, 1),
    Field("current_dclk", 92, 2, 1),
    Field("throttle_status", 104, 8, 1),
    Field("fan_pwm", 112, 2, 1) }

\* v2.1+ fields
V2Rev1Fields == { Field("voltage_soc", 114, 2, 1), Field("voltage_gfx", 116, 2, 1),
                  Field("voltage_mem", 118, 2, 1) }

\* minimum body lengths checked by the parsers of metrics.rs
V1MinLen == 92
V2MinLen == 116
\* body lengths the optional groups are gated on
V1Rev1Len == 82
V1Rev2Len == 90
V1Rev3Len == 102
V2Rev1Len == 122

\* A decoded record: the concrete type, the header and the fields.  Base
\* fields hold their value, optional fields hold an Option.
Record(variant, header, data, base, present, absent) ==
    [variant |-> variant,
     header |-> header,
     f |-> [name \in FieldNames(base \cup present \cup absent) |->
              IF name \in FieldNames(base) THEN ReadField(data, FieldNamed(base, name))
              ELSE IF name \in FieldNames(present)
                   THEN Some(ReadField(data, FieldNamed(present, name)))
                   ELSE None]]

\* the optional v1 groups decoded for this revision and body length, the
\* revision thresholds being r1, r2 and r3
V1PresentWith(header, data, r1, r2, r3) ==
    (IF header.content_revision >= r1 /\ Len(data) >= V1Rev1Len THEN V1Rev1Fields ELSE {})
    \cup
    (IF header.content_revision >= r2 /\ Len(data) >= V1Rev2Len THEN V1Rev2Fields ELSE {})
    \cup
    (IF header.content_revision >= r3 /\ Len(data) >= V1Rev3Len THEN V1Rev3Fields ELSE {})

V1PresentOffByOne(header, data) == V1PresentWith(header, data, 1, 2, 4)

V1Present(header, data) == V1PresentWith(header, data, 1, 2, 3)

V2Present(header, data) ==
    IF header.content_revision >= 1 /\ Len(data) >= V2Rev1Len THEN V2Rev1Fields ELSE {}

\* a v1 parser without the base-length check
parse_v1_metrics_unchecked(header, data) ==
    LET calls == {"parse_v1_metrics"}
        present == V1Present(header, data)
    IN  IF ~InBounds(data, V1BaseFields \cup present)
        THEN Panic("index out of bounds", calls)
        ELSE Ok(Record("GpuMetricsV1", header, data, V1BaseFields, present,
                       V1OptionalFields \ present), calls)

\* MetricsReader::parse_v1_metrics of metrics.rs
parse_v1_metrics(header, data) ==
    LET calls == {"parse_v1_metrics"}
        present == V1Present(header, data)
    IN  IF Len(data) < V1MinLen
        THEN ParseErr("Insufficient data for v1.x metrics", calls)
        ELSE IF ~InBounds(data, V1BaseFields \cup present)
        THEN Panic("index out of bounds", calls)
        ELSE Ok(Record("GpuMetricsV1", header, data, V1BaseFields, present,
                       V1OptionalFields \ present), calls)

\* MetricsReader::parse_v2_metrics of metrics.rs
parse_v2_metrics(header, data) ==
    LET calls == {"parse_v2_metrics"}
        present == V2Present(header, data)
    IN  IF Len(data) < V2MinLen
        THEN ParseErr("Insufficient data for v2.x metrics", calls)
        ELSE IF ~InBounds(data, V2BaseFields \cup present)
        THEN Panic("index out of bounds", calls)
        ELSE Ok(Record("GpuMetricsV2", header, data, V2BaseFields, present,
                       V2Rev1Fields \ present), calls)

\* the tail of a slice: &data[n..]
SliceFrom(data, n) == IF Len(data) <= n THEN << >> ELSE SubSeq(data, n + 1, Len(data))

\* r, with fn added to the functions the call went through
Called(r, fn) == [r EXCEPT !.calls = @ \cup {fn}]

\* the match on format_revision at the end of parse_metrics_from_bytes
dispatch(header, data_slice) ==
    CASE header.format_revision = 1 -> parse_v1_metrics(header, data_slice)
      [] header.format_revision = 2 -> parse_v2_metrics(header, data_slice)
      [] OTHER -> ParseErr("Unsupported format version", {})

\* MetricsReader::parse_metrics_from_bytes of metrics.rs
parse_metrics_from_bytes(data) ==
    Called(IF Len(data) < 4
           THEN ParseErr("Insufficient data for header", {})
           ELSE LET header == HeaderOf(data)
                    data_slice == SliceFrom(data, 4)
                IN  IF ~is_supported(header)
                    THEN ParseErr("Unsupported GPU metrics version", {})
                    ELSE dispatch(header, data_slice),
           "parse_metrics_from_bytes")

\* build profiles: integer overflow checks are on in debug, off in release
Builds == {"debug", "release"}

\* the largest structure_size a read accepts
MaxStructureSize == 1024

\* `header.structure_size as usize - 4` followed by `vec![0u8; data_size]`:
\* below 4 the subtraction overflows (a panic with overflow checks; without
\* them the wrapped length exceeds isize::MAX and the allocation panics)
DataSizePanic(build) ==
    IF build = "debug" THEN Panic("attempt to subtract with overflow", {})
    ELSE Panic("capacity overflow", {})

\* the file as File::open and read_exact see it: f is Missing or a blob
\* MetricsReader::read_direct of metrics.rs
read_direct(f, build) ==
    Called(IF ~f.exists THEN IoErr("No such file or directory")
           ELSE IF f.len < 4 THEN IoErr("failed to fill whole buffer")
           ELSE LET bytes == FileBytes(f)
                    header_buf == SubSeq(bytes, 1, 4)
                    header == HeaderOf(header_buf)
                IN  IF header.structure_size = 0 \/ header.structure_size > MaxStructureSize
                    THEN ParseErr("Invalid structure size", {})
                    ELSE IF header.structure_size < 4 THEN DataSizePanic(build)
                    ELSE LET data_size == header.structure_size - 4
                         IN  IF f.len - 4 < data_size
                             THEN IoErr("failed to fill whole buffer")
                             ELSE parse_metrics_from_bytes(
                                      header_buf \o SubSeq(bytes, 5, 4 + data_size)),
           "read_direct")

\* a mapping of the file: the bytes it shows, and whether the mapped file is
\* still the one at the path (a mapping outlives the removal of its file)
MapOf(f) == Some([bytes |-> f, live |-> TRUE])

\* a mapped read that opens and maps the file on every call
read_with_mmap_reopening(mm, f) ==
    IF ~f.exists
    THEN [r |-> Called(IoErr("No such file or directory"), "read_with_mmap"), mm |-> mm]
    ELSE [r |-> Called(parse_metrics_from_bytes(FileBytes(f)), "read_with_mmap"),
          mm |-> MapOf(f)]

\* MetricsReader::read_with_mmap of metrics.rs: the result and the new memory_map
read_with_mmap(mm, f) ==
    IF IsNone(mm) /\ ~f.exists
    THEN [r |-> Called(IoErr("No such file or directory"), "read_with_mmap"), mm |-> mm]
    ELSE LET mmap == IF IsNone(mm) THEN MapOf(f) ELSE mm
         IN  [r |-> Called(parse_metrics_from_bytes(FileBytes(Unwrap(mmap).bytes)), "read_with_mmap"),
              mm |-> mmap]

----------------------------------------------------------------------------
(* amdgpu/reader.rs: the second MetricsReader of the crate *)

\* GpuMetricsV1_0 is decoded from the same offsets as the base of GpuMetricsV1
ReaderV1Fields == V1BaseFields

ReaderV2Fields == {
    Field("temperature_core", 16, 2, 8),
    Field("temperature_l3", 32, 2, 2),
    Field("average_core_power", 50, 2, 8),
    Field("current_coreclk", 84, 2, 8),
    Field("current_l3clk", 100, 2, 2),
    Field("system_clock_counter", 0, 8, 1),
    Field("temperature_gfx", 8, 2, 1),
    Field("temperature_soc", 10, 2, 1),
    Field("average_gfx_activity", 36, 2, 1),
    Field("average_mm_activity", 38, 2, 1),
    Field("average_socket_power", 40, 2, 1),
    Field("average_cpu_power", 42, 2, 1),
    Field("average_soc_power", 44, 2, 1),
    Field("average_gfx_power", 46, 2, 1),
    Field("average_gfxclk_frequency", 66, 2, 1),
    Field("average_socclk_frequency", 68, 2, 1),
    Field("average_uclk_frequency", 70, 2, 1),
    Field("average_fclk_frequency", 72, 2, 1),
    Field("average_vclk_frequency", 74, 2, 1),
    Field("average_dclk_frequency", 76, 2, 1),
    Field("current_gfxclk", 78, 2, 1),
    Field("current_socclk", 80, 2, 1),
    Field("current_uclk", 82, 2, 1),
    Field("current_fclk", 84, 2, 1),
    Field("current_vclk", 86, 2, 1),
    Field("current_dclk", 88, 2, 1),
    Field("throttle_status", 104, 8, 1),
    Field("fan_pwm", 112, 2, 1) }

\* minimum body lengths checked by the parsers of reader.rs
ReaderV1MinLen == 96
ReaderV2MinLen == 96

\* MetricsReader::parse_v1_metrics of reader.rs
reader_parse_v1_metrics(header, data) ==
    LET calls == {"parse_v1_metrics"}
    IN  IF header.content_revision \in 0..3
        THEN IF Len(data) < ReaderV1MinLen
             THEN ParseErr("Insufficient data for v1.x", calls)
             ELSE IF ~InBounds(data, ReaderV1Fields)
             THEN Panic("index out of bounds", calls)
             ELSE Ok(Record("GpuMetricsV1_0", header, data, ReaderV1Fields, {}, {}), calls)
        ELSE ParseErr("Unsupported v1 content revision", calls)

\* MetricsReader::parse_v2_metrics of reader.rs
reader_parse_v2_metrics(header, data) ==
    LET calls == {"parse_v2_metrics"}
    IN  IF header.content_revision = 0
        THEN IF Len(data) < ReaderV2MinLen
             THEN ParseErr("Insufficient data for v2.0", calls)
             ELSE IF ~InBounds(data, ReaderV2Fields)
             THEN Panic("index out of bounds", calls)
             ELSE Ok(Record("GpuMetricsV2_0", header, data, ReaderV2Fields, {}, {}), calls)
        ELSE ParseErr("Unsupported v2 content revision", calls)

\* MetricsReader::parse_metrics of reader.rs
reader_parse_metrics(header, data) ==
    Called(CASE header.format_revision = 1 -> reader_parse_v1_metrics(header, data)
             [] header.format_revision = 2 -> reader_parse_v2_metrics(header, data)
             [] OTHER -> ParseErr("Unsupported format version", {}),
           "parse_metrics")

\* MetricsReader::read_file of reader.rs
reader_read_file(f, build) ==
    Called(IF ~f.exists THEN IoErr("No such file or directory")
           ELSE IF f.len < 4 THEN IoErr("failed to fill whole buffer")
           ELSE LET bytes == FileBytes(f)
                    header == HeaderOf(SubSeq(bytes, 1, 4))
                IN  IF header.structure_size = 0 \/ header.structure_size > MaxStructureSize
                    THEN ParseErr("Invalid structure size", {})
                    ELSE IF header.structure_size < 4 THEN DataSizePanic(build)
                    ELSE LET data_size == header.structure_size - 4
                         IN  IF f.len - 4 < data_size
                             THEN IoErr("failed to fill whole buffer")
                             ELSE reader_parse_metrics(header,
                                                       SubSeq(bytes, 5, 4 + data_size)),
           "reader_read_file")

----------------------------------------------------------------------------
(* Accessors of the GpuMetrics trait *)

IsV1(m) == m.variant \in {"GpuMetricsV1", "GpuMetricsV1_0"}
IsV2(m) == m.variant \in {"GpuMetricsV2", "GpuMetricsV2_0"}

get_temperature(m) ==
    IF IsV1(m) THEN <<m.f["temperature_edge"], "Edge">>
    ELSE <<m.f["temperature_gfx"], "GFX">>

----------------------------------------------------------------------------
(* Decoding specification: the file is drawn from the bounded set of blobs *)
(* and each read path is applied to it.                                    *)

Blobs ==
    { Blob(size, fmt, rev, len, fill) :
        size \in StructureSizes, fmt \in 0..MaxFormatRev, rev \in 0..MaxContentRev,
        len \in FileLens, fill \in 0..MaxFill }

NoResult == [op |-> "none", r |-> Err("", "", {})]

\* a serde_json::Value of SensorConfig.custom
Number(n) == [t |-> "Number", n |-> n]
Bool(b) == [t |-> "Bool", b |-> b]
Array(a) == [t |-> "Array", a |-> a]
String(s) == [t |-> "String", s |-> s]

\* a SensorConfig: its custom map; `id` stands for the other fields
SensorConfig(id, custom) == [id |-> id, custom |-> custom]

\* SensorConfig::default()
DefaultConfig == SensorConfig("default", << >>)

\* the configurable fields of an AmdgpuSensor
Settings(config, tw, tc, pw, pc, format, st, sp, su, sm, sf) ==
    [config |-> config, temp_warning |-> tw, temp_critical |-> tc,
     power_warning |-> pw, power_critical |-> pc, output_format |-> format,
     show_temperature |-> st, show_power |-> sp, show_utilization |-> su,
     show_memory |-> sm, show_frequency |-> sf]

\* the fields AmdgpuSensorBuilder::build gives a sensor built with the
\* builder's defaults
DefaultSettings ==
    Settings(DefaultConfig, 75, 90, 200, 250, "Compact", TRUE, TRUE, TRUE, FALSE, FALSE)

NoArgs == [op |-> "none"]

\* /sys/class/drm without a card
NoCards == << >>

\* the state of a MetricsReader and an AmdgpuSensor right after construction
SensorInit(strategy) ==
    /\ now = 0
    /\ cache_strategy = strategy
    /\ cache = None
    /\ memory_map = None
    /\ error_count = 0
    /\ last_successful_read = None
    /\ last_metrics = None
    /\ consecutive_errors = 0
    /\ last_error_time = None
    /\ ret = [op |-> "none"]
    /\ failed_since_ok = 0
    /\ settings = DefaultSettings
    /\ stdout = << >>

CacheNone == [kind |-> "None", max_age |-> 0, change_threshold |-> 0]
CacheMemoryMapped == [kind |-> "MemoryMapped", max_age |-> 0, change_threshold |-> 0]

InitDecode ==
    /\ file \in Blobs \cup {Missing}
    /\ result = NoResult
    /\ SensorInit(CacheNone)
    /\ args = NoArgs
    /\ sysfs = NoCards

\* a MetricsReader with CacheStrategy::None reads the file (read_direct)
DecodeDirect ==
    /\ \E build \in Builds :
          result' = [op |-> "read_direct", r |-> read_direct(file, build)]
    /\ UNCHANGED <<file, sensorVars>>

\* a fresh MetricsReader with CacheStrategy::MemoryMapped reads the file
DecodeMmap ==
    /\ result' = [op |-> "read_with_mmap", r |-> read_with_mmap(None, file).r]
    /\ UNCHANGED <<file, sensorVars>>

\* the MetricsReader of amdgpu/reader.rs reads the file
DecodeReader ==
    /\ \E build \in Builds :
          result' = [op |-> "reader_read_file", r |-> reader_read_file(file, build)]
    /\ UNCHANGED <<file, sensorVars>>

NextDecode == DecodeDirect \/ DecodeMmap \/ DecodeReader

SpecDecode == InitDecode /\ [][NextDecode]_vars

----------------------------------------------------------------------------
(* Vocabulary of the decoding claims *)

\* the header as the four leading bytes of the file encode it
FileHeader ==
    Header(u16_from_le_bytes(FileByte(file, 0), FileByte(file, 1)),
           FileByte(file, 2), FileByte(file, 3))

Decoded == result.op # "none" /\ file.exists /\ file.len >= 4

MetricsRsOps == {"read_direct", "read_with_mmap"}

\* the version dispatcher was reached with the file's header
DispatcherReached ==
    /\ Decoded
    /\ \/ result.op \in MetricsRsOps /\ "parse_metrics_from_bytes" \in result.r.calls
       \/ result.op = "reader_read_file" /\ "parse_metrics" \in result.r.calls

\* length of the body the dispatcher received
BodyLen ==
    IF result.op = "read_with_mmap" THEN file.len - 4 ELSE FileHeader.structure_size - 4

LayoutParsers == {"parse_v1_metrics", "parse_v2_metrics"}

UnsupportedMessages ==
    {"Unsupported GPU metrics version", "Unsupported format version",
     "Unsupported v1 content revision", "Unsupported v2 content revision"}

InsufficientMessages ==
    {"Insufficient data for header", "Insufficient data for v1.x metrics",
     "Insufficient data for v2.x metrics", "Insufficient data for v1.x",
     "Insufficient data for v2.0"}

IsParseErr(r, messages) == r.tag = "Err" /\ r.kind = "Parse" /\ r.message \in messages

\* the layout parser of the header's own family
OwnParser(header) ==
    IF header.format_revision = 1 THEN {"parse_v1_metrics"}
    ELSE IF header.format_revision = 2 THEN {"parse_v2_metrics"}
    ELSE {}

----------------------------------------------------------------------------
C2_SupportedVersionDecodes ==
    (/\ DispatcherReached
     /\ Pair(FileHeader) \in SupportedPairs
     /\ BodyLen >= (IF result.op \in MetricsRsOps
                    THEN (IF FileHeader.format_revision = 1 THEN V1MinLen ELSE V2MinLen)
                    ELSE (IF FileHeader.format_revision = 1 THEN ReaderV1MinLen
                          ELSE ReaderV2MinLen)))
        => /\ result.r.tag = "Ok"
           /\ FileHeader.format_revision = 1 => IsV1(result.r.metrics)
           /\ FileHeader.format_revision = 2 => IsV2(result.r.metrics)

\* C3 (as claimed): on the direct read path and on the memory-mapped read path
\* a structure_size of 0 or above 1024 is rejected with the invalid-size Parse
\* error.
C3_InvalidSizeRejected ==
    (/\ Decoded
     /\ result.op \in MetricsRsOps
     /\ (FileHeader.structure_size = 0 \/ FileHeader.structure_size > MaxStructureSize))
        => IsParseErr(result.r, {"Invalid structure size"})

HeaderOnlyDispatch(r, header, accepted) ==
    IF Pair(header) \in accepted THEN IsParseErr(r, InsufficientMessages)
    ELSE IsParseErr(r, UnsupportedMessages)

C5_EdgeTemperature ==
    (/\ Decoded
     /\ file.len = 96
     /\ FileHeader = Header(96, 1, 0))
        => /\ result.r.tag = "Ok"
           /\ get_temperature(result.r.metrics)
                 = <<u16_from_le_bytes(FileByte(file, 12), FileByte(file, 13)), "Edge">>

\* the optional v1 fields of a record that are Some
PresentIn(m, names) == \A name \in names : IsSome(m.f[name])
AbsentIn(m, names) == \A name \in names : IsNone(m.f[name])

\* C6: in a v1 record of metrics.rs, gfx_voltage and soc_voltage are present
\* iff content_revision >= 1, mem_voltage and indep_throttle_status iff
\* content_revision >= 2, current_socket_power and vcn_activity iff
\* content_revision >= 3 and the body has at least 102 bytes; a field that is
\* not decoded is None.
C6_V1OptionalPresence ==
    (/\ Decoded
     /\ result.op \in MetricsRsOps
     /\ result.r.tag = "Ok"
     /\ result.r.metrics.variant = "GpuMetricsV1")
        => LET m == result.r.metrics
               rev == FileHeader.content_revision
               Gate(names, cond) ==
                   IF cond THEN PresentIn(m, names) ELSE AbsentIn(m, names)
           IN  /\ Gate({"gfx_voltage", "soc_voltage"}, rev >= 1)
               /\ Gate({"mem_voltage", "indep_throttle_status"}, rev >= 2)
               /\ Gate({"current_socket_power", "vcn_activity"},
                       rev >= 3 /\ BodyLen >= 102)

\* C6 witness: a v1.3 record with a 102-byte body holds all six optional fields
C6_Witness ==
    /\ Decoded
    /\ result.op = "read_direct"
    /\ result.r.tag = "Ok"
    /\ Pair(FileHeader) = <<1, 3>>
    /\ BodyLen >= 102
    /\ PresentIn(result.r.metrics, FieldNames(V1OptionalFields))

----------------------------------------------------------------------------
(* MetricsReader of metrics.rs: cache strategies *)

CacheBasic(max_age) == [kind |-> "Basic", max_age |-> max_age, change_threshold |-> 0]
CacheAggressive(max_age, change_threshold) ==
    [kind |-> "Aggressive", max_age |-> max_age, change_threshold |-> change_threshold]

\* Instant::elapsed() of a stored instant, read at clock value t
Elapsed(instant, t) == t - instant

\* a cache check that still serves an entry of exactly max_age
check_cache_inclusive(strategy, c, t) ==
    IF strategy.kind \in {"Basic", "Aggressive"}
       /\ IsSome(c) /\ Elapsed(Unwrap(c).timestamp, t) <= strategy.max_age
    THEN Some(Unwrap(c).metrics) ELSE None

\* a cache check whose Aggressive arm lets change_threshold decide validity:
\* the entry is served only while younger than max_age - change_threshold
check_cache_by_change(strategy, c, t) ==
    CASE strategy.kind = "None" -> None
      [] strategy.kind = "Basic" ->
            IF IsSome(c) /\ Elapsed(Unwrap(c).timestamp, t) < strategy.max_age
            THEN Some(Unwrap(c).metrics) ELSE None
      [] strategy.kind = "Aggressive" ->
            IF IsSome(c) /\ Elapsed(Unwrap(c).timestamp, t)
                               < strategy.max_age - strategy.change_threshold
            THEN Some(Unwrap(c).metrics) ELSE None
      [] strategy.kind = "MemoryMapped" -> None

\* MetricsReader::check_cache, evaluated at clock value t
check_cache(strategy, c, t) ==
    CASE strategy.kind = "None" -> None
      [] strategy.kind = "Basic" ->
            IF IsSome(c) /\ Elapsed(Unwrap(c).timestamp, t) < strategy.max_age
            THEN Some(Unwrap(c).metrics) ELSE None
      [] strategy.kind = "Aggressive" ->
            IF IsSome(c) /\ Elapsed(Unwrap(c).timestamp, t) < strategy.max_age
            THEN Some(Unwrap(c).metrics) ELSE None
      [] strategy.kind = "MemoryMapped" -> None

\* MetricsReader::update_cache, evaluated at clock value t: the new cache slot
update_cache(strategy, c, metrics, t) ==
    IF strategy.kind = "None" THEN c
    ELSE Some([metrics |-> metrics,
               timestamp |-> t,
               read_count |-> IF IsSome(c) THEN Unwrap(c).read_count + 1 ELSE 1,
               last_validation |-> t])

\* the state of a MetricsReader
ReaderState(c, mm, ec, lsr) ==
    [cache |-> c, memory_map |-> mm, error_count |-> ec, last_successful_read |-> lsr]

\* the contents the polled file takes: two v1.3 blobs with different bodies and
\* a blob of an unsupported version, all of one length (the kernel rewrites the
\* file in place)
SensorFiles ==
    { Blob(106, 1, 3, 106, 0), Blob(106, 1, 3, 106, 1), Blob(106, 0, 0, 106, 0) }

\* what is at the path: one of the blobs, or nothing
SensorPaths == SensorFiles \cup {Missing}

\* the values of memory_map
Mappings == {None} \cup { Some([bytes |-> f, live |-> l]) : f \in SensorFiles, l \in BOOLEAN }

\* read_direct and read_with_mmap, tabulated over the polled file
DirectRead == [f \in SensorPaths |-> [build \in Builds |-> read_direct(f, build)]]
MappedRead == [mm \in Mappings |-> [f \in SensorPaths |-> read_with_mmap(mm, f)]]

\* a failure path that drops the cache entry
read_failed_evicting(rs, mm) == [rs EXCEPT !.memory_map = mm, !.cache = None]

\* the `?` on the fresh read in read_file: the reader state an error leaves
read_failed(rs, mm) == [rs EXCEPT !.memory_map = mm]

\* MetricsReader::read_file of metrics.rs on reader state rs, at clock value t:
\* the result r, whether the cache was bypassed (fresh), whether the file was
\* opened, and the reader state after the call
read_file(strategy, rs, f, t, build) ==
    LET cached == check_cache(strategy, rs.cache, t)
    IN  IF IsSome(cached)
        THEN [r |-> Ok(Unwrap(cached), {}), fresh |-> FALSE, opened |-> FALSE, rs |-> rs]
        ELSE LET viaMap == strategy.kind = "MemoryMapped"
                 mapped == MappedRead[rs.memory_map][f]
                 r == IF viaMap THEN mapped.r ELSE DirectRead[f][build]
                 mm == IF viaMap THEN mapped.mm ELSE rs.memory_map
                 opened == IF viaMap THEN IsNone(rs.memory_map) ELSE TRUE
             IN  IF r.tag = "Ok"
                 THEN [r |-> r, fresh |-> TRUE, opened |-> opened,
                       rs |-> ReaderState(update_cache(strategy, rs.cache, r.metrics, t),
                                          mm, 0, Some(t))]
                 ELSE [r |-> r, fresh |-> TRUE, opened |-> opened,
                       rs |-> read_failed(rs, mm)]

\* a reader invalidation that keeps the mapping
reader_invalidate_cache_keep_map(rs) == [rs EXCEPT !.cache = None]

\* MetricsReader::invalidate_cache
reader_invalidate_cache(rs) == [rs EXCEPT !.cache = None, !.memory_map = None]

----------------------------------------------------------------------------
(* AmdgpuSensor of gpu.rs: the recovery path *)

\* the last good value is reused while younger than this many seconds
RecoveryWindow == 10
\* ... and while the failure is at most this one in a row
MaxRecoveryErrors == 3

\* the state of an AmdgpuSensor, besides its reader
SensorState(lm, ce, let) ==
    [last_metrics |-> lm, consecutive_errors |-> ce, last_error_time |-> let]

\* a recovery test that still masks the 4th failure in a row
recovers_four(ss, t) ==
    /\ ss.consecutive_errors <= MaxRecoveryErrors + 1
    /\ IsSome(ss.last_metrics)
    /\ t - Unwrap(ss.last_metrics).time < RecoveryWindow

\* an error arm that does not count the failure
error_not_counted(ss, t) == SensorState(ss.last_metrics, ss.consecutive_errors, Some(t))

\* the first two statements of the `Err(e)` arm: the failure is counted
error_counted(ss, t) == SensorState(ss.last_metrics, ss.consecutive_errors + 1, Some(t))

\* the `Err(e)` arm of read_metrics_with_recovery: whether the cached metrics
\* are returned, given the state after the error was counted
recovers(ss, t) ==
    /\ ss.consecutive_errors <= MaxRecoveryErrors
    /\ IsSome(ss.last_metrics)
    /\ t - Unwrap(ss.last_metrics).time < RecoveryWindow

\* AmdgpuSensor::read_metrics_with_recovery on sensor state ss, given the
\* outcome `inner` of metrics_reader.read_file, at clock value t: the value
\* returned and the sensor state after the call
read_metrics_with_recovery(ss, inner, t) ==
    IF inner.tag = "Ok"
    THEN [out |-> Ok(inner.metrics, inner.calls),
          recovered |-> FALSE,
          ss |-> SensorState(Some([metrics |-> inner.metrics, time |-> t]), 0, None)]
    ELSE LET counted == error_counted(ss, t)
         IN  IF recovers(counted, t)
             THEN [out |-> Ok(Unwrap(counted.last_metrics).metrics, {}),
                   recovered |-> TRUE, ss |-> counted]
             ELSE [out |-> inner, recovered |-> FALSE, ss |-> counted]

----------------------------------------------------------------------------
(* Sensor specification: one AmdgpuSensor polling one gpu_metrics file.   *)
(* A call is one step taken at one value of the clock (`&mut self` makes   *)
(* calls on one sensor sequential); the clock counts seconds.              *)

Strategies ==
    { CacheNone, CacheBasic(MaxAgeSecs), CacheMemoryMapped }

Init ==
    /\ file \in SensorFiles
    /\ result = NoResult
    /\ \E strategy \in Strategies : SensorInit(strategy)
    /\ args = NoArgs
    /\ sysfs = NoCards

CurrentReader == ReaderState(cache, memory_map, error_count, last_successful_read)
CurrentSensor == SensorState(last_metrics, consecutive_errors, last_error_time)

\* every call flips `turn`, so that no call is a stuttering step
Turn == IF ret.op = "none" THEN 1 ELSE 1 - ret.turn

\* time passes
Tick ==
    /\ now < MaxTime
    /\ now' = now + 1
    /\ UNCHANGED <<settings, stdout, args, sysfs, file, result, cache_strategy, cache, memory_map, error_count,
                   last_successful_read, last_metrics, consecutive_errors,
                   last_error_time, ret, failed_since_ok>>

\* the kernel rewrites the blob in place: an existing mapping shows the new bytes
KernelUpdate ==
    /\ file.exists
    /\ \E f \in SensorFiles \ {file} :
          /\ file' = f
          /\ memory_map' = IF IsSome(memory_map) /\ Unwrap(memory_map).live
                           THEN Some([bytes |-> f, live |-> TRUE]) ELSE memory_map
    /\ UNCHANGED <<settings, stdout, args, sysfs, result, now, cache_strategy, cache, error_count,
                   last_successful_read, last_metrics, consecutive_errors,
                   last_error_time, ret, failed_since_ok>>

\* the device goes away: the path no longer exists
FileRemoved ==
    /\ file.exists
    /\ file' = Missing
    /\ memory_map' = IF IsSome(memory_map)
                     THEN Some([Unwrap(memory_map) EXCEPT !.live = FALSE]) ELSE memory_map
    /\ UNCHANGED <<settings, stdout, args, sysfs, result, now, cache_strategy, cache, error_count,
                   last_successful_read, last_metrics, consecutive_errors,
                   last_error_time, ret, failed_since_ok>>

\* the device comes back: a new file at the path
FileCreated ==
    /\ ~file.exists
    /\ file' \in SensorFiles
    /\ UNCHANGED <<settings, stdout, args, sysfs, result, now, cache_strategy, cache, memory_map, error_count,
                   last_successful_read, last_metrics, consecutive_errors,
                   last_error_time, ret, failed_since_ok>>

\* AmdgpuSensor::read, up to the metrics it formats; thermal_monitor and
\* performance_analytics are None, as the builder leaves them by default
SensorRead ==
    \E build \in Builds :
        LET rf == read_file(cache_strategy, CurrentReader, file, now, build)
            rec == read_metrics_with_recovery(CurrentSensor, rf.r, now)
        IN  /\ rf.r.tag # "Panic"
            /\ rec.ss.consecutive_errors <= MaxErrors
            /\ IsSome(rf.rs.cache) => Unwrap(rf.rs.cache).read_count <= MaxReadCount
            /\ cache' = rf.rs.cache
            /\ memory_map' = rf.rs.memory_map
            /\ error_count' = rf.rs.error_count
            /\ last_successful_read' = rf.rs.last_successful_read
            /\ last_metrics' = rec.ss.last_metrics
            /\ consecutive_errors' = rec.ss.consecutive_errors
            /\ last_error_time' = rec.ss.last_error_time
            /\ failed_since_ok' = IF rf.r.tag = "Ok" THEN 0 ELSE failed_since_ok + 1
            /\ ret' = [op |-> "read", turn |-> Turn,
                       inner |-> rf.r, fresh |-> rf.fresh, opened |-> rf.opened,
                       out |-> rec.out, recovered |-> rec.recovered]
            /\ UNCHANGED <<settings, stdout, args, sysfs, file, result, now, cache_strategy>>

\* AmdgpuSensor::invalidate_cache
InvalidateCache ==
    LET rs == reader_invalidate_cache(CurrentReader)
    IN  /\ cache' = rs.cache
        /\ memory_map' = rs.memory_map
        /\ last_metrics' = None
        /\ ret' = [op |-> "invalidate_cache", turn |-> Turn]
        /\ UNCHANGED <<settings, stdout, args, sysfs, file, result, now, cache_strategy, error_count,
                       last_successful_read, consecutive_errors, last_error_time,
                       failed_since_ok>>

Next ==
    \/ Tick
    \/ KernelUpdate
    \/ FileRemoved
    \/ FileCreated
    \/ SensorRead
    \/ InvalidateCache

Spec == Init /\ [][Next]_vars

----------------------------------------------------------------------------
(* Claims on the cache and on the recovery path *)

\* the step is a call of AmdgpuSensor::read
ReadStep == ret' # ret /\ ret'.op = "read"

\* the step is a read whose MetricsReader::read_file call went to the file and failed
FailedFreshRead == ReadStep /\ ret'.fresh /\ ret'.inner.tag # "Ok"

\* C7: under Basic{max_age}, a read_file call made less than max_age after the
\* fresh read that populated the cache returns the cached metrics without
\* opening or parsing the file and leaves the entry, timestamp included, as it
\* was; a call made max_age or more after the populating read goes to the file
\* and, when that read succeeds, replaces the entry with the new metrics
\* stamped with the time of that read.
C7_BasicCacheWindow ==
    [][(ReadStep /\ cache_strategy.kind = "Basic" /\ IsSome(cache)) =>
          LET entry == Unwrap(cache)
          IN  IF now - entry.timestamp < cache_strategy.max_age
              THEN /\ ret'.inner = Ok(entry.metrics, {})
                   /\ ~ret'.fresh /\ ~ret'.opened
                   /\ cache' = cache
              ELSE /\ ret'.fresh /\ ret'.opened
                   /\ "read_direct" \in ret'.inner.calls
                   /\ ret'.inner.tag = "Ok" =>
                          cache' = Some([metrics |-> ret'.inner.metrics,
                                         timestamp |-> now,
                                         read_count |-> entry.read_count + 1,
                                         last_validation |-> now])]_vars

\* C7 witness: the entry was populated, expired and was replaced by a second
\* fresh read; a later read is served from it although the file has changed
C7_Witness ==
    /\ ret.op = "read"
    /\ cache_strategy.kind = "Basic"
    /\ ~ret.fresh
    /\ IsSome(cache)
    /\ Unwrap(cache).read_count = 2
    /\ now > Unwrap(cache).timestamp
    /\ file.exists
    /\ DirectRead[file]["release"].tag = "Ok"
    /\ DirectRead[file]["release"].metrics # ret.inner.metrics

\* C8: when the fresh read of read_file fails, read_file returns the I/O or
\* Parse error of that read and the cache slot (metrics, timestamp,
\* read_count, or emptiness) is what it was before the call.
C8_FailedReadKeepsCache ==
    [][FailedFreshRead =>
          /\ ret'.inner.tag = "Err"
          /\ ret'.inner.kind \in {"Io", "Parse"}
          /\ IF cache_strategy.kind = "MemoryMapped"
             THEN ret'.inner = read_with_mmap(memory_map, file).r
             ELSE \E build \in Builds : ret'.inner = read_direct(file, build)
          /\ cache' = cache]_vars

\* C8 witness: a refresh of an expired Basic entry failed and the stale entry
\* is still in the slot
C8_Witness ==
    /\ ret.op = "read"
    /\ ret.fresh
    /\ ret.inner.tag = "Err"
    /\ cache_strategy.kind = "Basic"
    /\ IsSome(cache)
    /\ now - Unwrap(cache).timestamp >= cache_strategy.max_age

C10_ConsecutiveErrors ==
    /\ consecutive_errors = failed_since_ok
    /\ ret.op = "read" =>
          /\ ret.inner.tag = "Ok" => consecutive_errors = 0
          /\ ret.recovered => ret.inner.tag = "Err" /\ consecutive_errors >= 1

\* C10 witness: two failures in a row were answered from the recovery path
C10_Witness ==
    /\ ret.op = "read"
    /\ ret.recovered
    /\ ret.out.tag = "Ok"
    /\ consecutive_errors = 2

----------------------------------------------------------------------------
(* AmdgpuSensor::configure of gpu.rs *)

\* HashMap::get on SensorConfig.custom
HasKey(custom, key) == key \in DOMAIN custom

\* config.get_custom(key) when it is a Number that as_f64 converts, else old
NumberOr(custom, key, old) ==
    IF HasKey(custom, key) /\ custom[key].t = "Number" THEN custom[key].n ELSE old

\* config.custom.get(key).and_then(|v| v.as_bool()), else old
BoolOr(custom, key, old) ==
    IF HasKey(custom, key) /\ custom[key].t = "Bool" THEN custom[key].b ELSE old

\* the elements of a display_order array that are strings
Items(array) == { array[i].s : i \in { j \in DOMAIN array : array[j].t = "String" } }

\* AmdgpuSensor::update_display_config: the settings with the display flags
\* the configuration selects
update_display_config(st, config) ==
    LET custom == config.custom
        flags == [st EXCEPT
                    !.show_temperature = BoolOr(custom, "show_temperature", @),
                    !.show_power = BoolOr(custom, "show_power", @),
                    !.show_utilization = BoolOr(custom, "show_utilization", @),
                    !.show_memory = BoolOr(custom, "show_memory", @),
                    !.show_frequency = BoolOr(custom, "show_frequency", @)]
    IN  IF HasKey(custom, "display_order") /\ custom["display_order"].t = "Array"
        THEN LET order == Items(custom["display_order"].a)
             IN  [flags EXCEPT
                    !.show_temperature = "temperature" \in order,
                    !.show_power = "power" \in order,
                    !.show_utilization = "utilization" \in order,
                    !.show_memory = "memory" \in order,
                    !.show_frequency = "frequency" \in order]
        ELSE flags

\* AmdgpuSensor::configure: the settings after the call
configure(st, config) ==
    LET thresholds == [st EXCEPT
                         !.temp_warning = NumberOr(config.custom, "temp_warning", @),
                         !.temp_critical = NumberOr(config.custom, "temp_critical", @)]
    IN  [update_display_config(thresholds, config) EXCEPT !.config = config]

\* the configurations handed to configure
ConfigInputs ==
    { SensorConfig("plain", [k \in {} |-> Bool(TRUE)]),
      SensorConfig("thresholds",
                   [k \in {"temp_warning", "temp_critical"} |->
                      IF k = "temp_warning" THEN Number(95) ELSE Number(60)]),
      SensorConfig("flags",
                   [k \in {"show_temperature", "show_memory", "temp_warning"} |->
                      IF k = "show_temperature" THEN Bool(FALSE)
                      ELSE IF k = "show_memory" THEN Bool(TRUE) ELSE String("hot")]),
      SensorConfig("order",
                   [k \in {"display_order"} |->
                      Array(<<String("power"), String("bogus"), String("temperature")>>)]) }

\* AmdgpuSensor::invalidate_cache: the reader and the last good metrics
sensor_invalidate_cache(rs) ==
    [rs |-> reader_invalidate_cache(rs), last_metrics |-> None]

\* AmdgpuSensor::configure
Configure ==
    \E config \in ConfigInputs :
        LET inv == sensor_invalidate_cache(CurrentReader)
        IN  /\ settings' = configure(settings, config)
            /\ cache' = inv.rs.cache
            /\ memory_map' = inv.rs.memory_map
            /\ last_metrics' = inv.last_metrics
            /\ ret' = [op |-> "configure", turn |-> Turn, config |-> config]
            /\ UNCHANGED <<file, result, now, cache_strategy, error_count,
                           last_successful_read, consecutive_errors, last_error_time,
                           failed_since_ok, stdout, args, sysfs>>

\* the clock of the configuration specification runs to MaxConfigTime
ConfigTick == now < MaxConfigTime /\ Tick

NextConfigure ==
    \/ ConfigTick
    \/ KernelUpdate
    \/ FileRemoved
    \/ FileCreated
    \/ SensorRead
    \/ Configure

SpecConfigure == Init /\ [][NextConfigure]_vars

\* C11: after configure() the active configuration is the supplied one and the
\* cache slot, the memory map and the last good metrics are empty; the next
\* read() goes to the file (opening it) and returns what that read gave, never
\* a cached or recovered value.
C11_ConfigureInvalidates ==
    /\ [](ret.op = "configure" =>
            /\ settings.config = ret.config
            /\ cache = None /\ memory_map = None /\ last_metrics = None)
    /\ [][(ReadStep /\ ret.op = "configure") =>
            /\ ret'.fresh /\ ret'.opened /\ ~ret'.recovered
            /\ ret'.out = ret'.inner
            /\ IF cache_strategy.kind = "MemoryMapped"
               THEN ret'.inner = read_with_mmap(None, file).r
               ELSE \E build \in Builds : ret'.inner = read_direct(file, build)]_vars

\* C11 witness: a value was cached within max_age, the file then became
\* unreadable, configure() was called and the next read returned the error
C11_Witness ==
    /\ ret.op = "read"
    /\ cache_strategy.kind = "Basic"
    /\ settings.config.id = "order"
    /\ now = 0
    /\ ret.fresh /\ ret.out.tag = "Err"
    /\ consecutive_errors = 1
    /\ IsNone(cache) /\ IsNone(last_metrics)
    /\ IsSome(last_successful_read)

----------------------------------------------------------------------------
(* ThrottleStatus of metrics.rs.  A u64 is the tuple of its 8 little-endian *)
(* bytes, as read_u64_le builds it.                                        *)

\* bit k of byte x
ByteBit(x, k) == (x \div (2 ^ k)) % 2

\* x & y on bytes
AndByte(x, y) ==
    LET Term(k) == (2 ^ k) * ByteBit(x, k) * ByteBit(y, k)
    IN  Term(0) + Term(1) + Term(2) + Term(3) + Term(4) + Term(5) + Term(6) + Term(7)

\* x | y on bytes
OrByte(x, y) == x + y - AndByte(x, y)

\* a & b and a | b on u64
And64(a, b) == [k \in 1..8 |-> AndByte(a[k], b[k])]
Or64(a, b) == [k \in 1..8 |-> OrByte(a[k], b[k])]

\* 0u64 and 1 << b
Zero64 == [k \in 1..8 |-> 0]
Shl1(b) == [k \in 1..8 |-> IF k = (b \div 8) + 1 THEN 2 ^ (b % 8) ELSE 0]

\* a flag of the table: its name and its mask
Flag(name, b) == [name |-> name, flag |-> Shl1(b)]

\* a table that lacks THM_SOC
THROTTLE_FLAGS_SHORT ==
    << Flag("PROCHOT_CPU", 0), Flag("PROCHOT_GFX", 1),
       Flag("PPT0", 16), Flag("PPT1", 17), Flag("PPT2", 18), Flag("PPT3", 19),
       Flag("SPL", 20), Flag("FPPT", 21), Flag("SPPT", 22), Flag("SPPT_APU", 23),
       Flag("THM_CORE", 32), Flag("THM_GFX", 33) >>

\* ThrottleStatus::THROTTLE_FLAGS
THROTTLE_FLAGS ==
    << Flag("PROCHOT_CPU", 0), Flag("PROCHOT_GFX", 1),
       Flag("PPT0", 16), Flag("PPT1", 17), Flag("PPT2", 18), Flag("PPT3", 19),
       Flag("SPL", 20), Flag("FPPT", 21), Flag("SPPT", 22), Flag("SPPT_APU", 23),
       Flag("THM_CORE", 32), Flag("THM_GFX", 33), Flag("THM_SOC", 34) >>

\* a thermal mask that lacks bit 34
THERMAL_FLAGS_SHORT == Or64(Shl1(32), Shl1(33))

\* the constants of is_thermal_throttling and is_power_throttling
THERMAL_FLAGS == Or64(Or64(Shl1(32), Shl1(33)), Shl1(34))
POWER_FLAGS ==
    Or64(Or64(Or64(Shl1(16), Shl1(17)), Or64(Shl1(18), Shl1(19))),
         Or64(Or64(Shl1(20), Shl1(21)), Or64(Shl1(22), Shl1(23))))

\* ThrottleStatus::is_throttling
is_throttling(w) == w # Zero64

\* the names of the flags of the table whose mask meets w, in table order
RECURSIVE SelectFlags(_, _)
SelectFlags(flags, w) ==
    IF flags = << >> THEN << >>
    ELSE (IF And64(w, Head(flags).flag) # Zero64 THEN <<Head(flags).name>> ELSE << >>)
         \o SelectFlags(Tail(flags), w)

\* ThrottleStatus::active_flags
active_flags(w) == SelectFlags(THROTTLE_FLAGS, w)

\* an f64 quotient of two integers, kept as the fraction
Ratio(num, den) == [num |-> num, den |-> den]

\* ThrottleStatus::severity
severity(w) == Ratio(Len(active_flags(w)), Len(THROTTLE_FLAGS))

\* ThrottleStatus::is_thermal_throttling
is_thermal_throttling(w) == And64(w, THERMAL_FLAGS) # Zero64

\* ThrottleStatus::is_power_throttling
is_power_throttling(w) == And64(w, POWER_FLAGS) # Zero64

\* the byte values tried at each byte of the status word
ThrottleByteValues ==
    << {0, 1, 2, 3, 4, 255}, {0, 1}, {0, 1, 2, 64, 128, 255}, {0, 128},
       {0, 1, 2, 4, 7, 8, 255}, {0}, {0}, {0, 128} >>

ThrottleWords ==
    { <<b0, b1, b2, b3, b4, b5, b6, b7>> :
        b0 \in ThrottleByteValues[1], b1 \in ThrottleByteValues[2],
        b2 \in ThrottleByteValues[3], b3 \in ThrottleByteValues[4],
        b4 \in ThrottleByteValues[5], b5 \in ThrottleByteValues[6],
        b6 \in ThrottleByteValues[7], b7 \in ThrottleByteValues[8] }

\* Throttle specification: a status word is drawn and each method of
\* ThrottleStatus is applied to it
InitThrottle ==
    /\ file = Missing
    /\ result = NoResult
    /\ SensorInit(CacheNone)
    /\ args \in { [op |-> "ThrottleStatus", w |-> w] : w \in ThrottleWords }
    /\ sysfs = NoCards

InitThrottleVars ==
    <<file, now, cache_strategy, cache, memory_map, error_count, last_successful_read,
      last_metrics, consecutive_errors, last_error_time, ret, failed_since_ok,
      settings, stdout, args, sysfs>>

IsThrottling ==
    /\ result' = [op |-> "is_throttling", r |-> is_throttling(args.w)]
    /\ UNCHANGED InitThrottleVars

ActiveFlags ==
    /\ result' = [op |-> "active_flags", r |-> active_flags(args.w)]
    /\ UNCHANGED InitThrottleVars

Severity ==
    /\ result' = [op |-> "severity", r |-> severity(args.w)]
    /\ UNCHANGED InitThrottleVars

IsThermalThrottling ==
    /\ result' = [op |-> "is_thermal_throttling", r |-> is_thermal_throttling(args.w)]
    /\ UNCHANGED InitThrottleVars

IsPowerThrottling ==
    /\ result' = [op |-> "is_power_throttling", r |-> is_power_throttling(args.w)]
    /\ UNCHANGED InitThrottleVars

NextThrottle ==
    \/ IsThrottling
    \/ ActiveFlags
    \/ Severity
    \/ IsThermalThrottling
    \/ IsPowerThrottling

SpecThrottle == InitThrottle /\ [][NextThrottle]_vars

\* bit b of the u64 w is set
BitSet(w, b) == ByteBit(w[(b \div 8) + 1], b % 8) = 1

\* the bits the flag table names, and the name of each
NamedBits == {0, 1} \cup (16..23) \cup (32..34)
BitName(b) ==
    CASE b = 0 -> "PROCHOT_CPU" [] b = 1 -> "PROCHOT_GFX"
      [] b = 16 -> "PPT0" [] b = 17 -> "PPT1" [] b = 18 -> "PPT2" [] b = 19 -> "PPT3"
      [] b = 20 -> "SPL" [] b = 21 -> "FPPT" [] b = 22 -> "SPPT" [] b = 23 -> "SPPT_APU"
      [] b = 32 -> "THM_CORE" [] b = 33 -> "THM_GFX" [] b = 34 -> "THM_SOC"

\* the elements of a sequence
Range(seq) == { seq[i] : i \in DOMAIN seq }

\* C13: is_throttling() iff w # 0; is_thermal_throttling() iff one of bits 32,
\* 33, 34 is set; is_power_throttling() iff one of bits 16..23 is set;
\* active_flags() holds exactly the names of the table entries whose bit is
\* set, each once.
C13_ThrottlePredicates ==
    LET w == args.w
    IN  /\ result.op = "is_throttling" =>
              (result.r <=> \E b \in 0..63 : BitSet(w, b))
        /\ result.op = "is_thermal_throttling" =>
              (result.r <=> \E b \in {32, 33, 34} : BitSet(w, b))
        /\ result.op = "is_power_throttling" =>
              (result.r <=> \E b \in 16..23 : BitSet(w, b))
        /\ result.op = "active_flags" =>
              /\ Range(result.r) = { BitName(b) : b \in { n \in NamedBits : BitSet(w, n) } }
              /\ Len(result.r) = Cardinality(Range(result.r))

\* C13 witness: w = (1 << 16) | 1 names exactly PROCHOT_CPU and PPT0
C13_Witness ==
    /\ result.op = "active_flags"
    /\ args.w = <<1, 0, 1, 0, 0, 0, 0, 0>>
    /\ result.r = <<"PROCHOT_CPU", "PPT0">>

\* C14: severity() is the number of named flag bits set in w over 13, so at
\* most 1; when only unnamed bits are set, is_throttling() is true, severity()
\* is 0, active_flags() is empty and is_thermal_throttling() and
\* is_power_throttling() are false.
C14_ThrottleSeverity ==
    LET w == args.w
        named == { b \in NamedBits : BitSet(w, b) }
        onlyUnnamed == named = {} /\ \E b \in 0..63 : BitSet(w, b)
    IN  /\ result.op = "severity" =>
              /\ result.r = Ratio(Cardinality(named), 13)
              /\ 0 <= result.r.num /\ result.r.num <= result.r.den
        /\ onlyUnnamed =>
              /\ result.op = "is_throttling" => result.r = TRUE
              /\ result.op = "severity" => result.r.num = 0
              /\ result.op = "active_flags" => result.r = << >>
              /\ result.op = "is_thermal_throttling" => result.r = FALSE
              /\ result.op = "is_power_throttling" => result.r = FALSE

\* C14 witness: only bit 35 and bit 63 are set and severity() is 0
C14_Witness ==
    /\ result.op = "severity"
    /\ args.w = <<0, 0, 0, 0, 8, 0, 0, 128>>
    /\ result.r = Ratio(0, 13)

----------------------------------------------------------------------------
(* GpuMetrics: the accessors and the derived efficiencies of metrics.rs *)

\* the value of a field all of whose bytes are zero
ZeroField(fd) ==
    IF fd.n > 1 THEN [i \in 1..fd.n |-> 0] ELSE IF fd.w = 8 THEN Zero64 ELSE 0

\* a record of the given struct whose fields are zero or None, except the
\* ones `values` gives
MetricsRecord(variant, header, base, optional, values) ==
    [variant |-> variant,
     header |-> header,
     f |-> [name \in FieldNames(base \cup optional) |->
              IF name \in DOMAIN values THEN values[name]
              ELSE IF name \in FieldNames(base) THEN ZeroField(FieldNamed(base, name))
              ELSE None]]

\* a GpuMetricsV1 with the given temperature, powers and activity
V1Record(temp, power, current, activity) ==
    MetricsRecord("GpuMetricsV1", Header(100, 1, 3), V1BaseFields, V1OptionalFields,
                  [name \in {"temperature_edge", "average_socket_power",
                             "current_socket_power", "average_gfx_activity"} |->
                     CASE name = "temperature_edge" -> temp
                       [] name = "average_socket_power" -> power
                       [] name = "current_socket_power" -> current
                       [] name = "average_gfx_activity" -> activity])

\* a GpuMetricsV2 with the given temperature, power and activity
V2Record(temp, power, activity) ==
    MetricsRecord("GpuMetricsV2", Header(120, 2, 0), V2BaseFields, V2Rev1Fields,
                  [name \in {"temperature_gfx", "average_socket_power",
                             "average_gfx_activity"} |->
                     CASE name = "temperature_gfx" -> temp
                       [] name = "average_socket_power" -> power
                       [] name = "average_gfx_activity" -> activity])

\* GpuMetrics::get_power
get_power(m) ==
    IF m.variant = "GpuMetricsV1"
    THEN (IF IsSome(m.f["current_socket_power"]) THEN Unwrap(m.f["current_socket_power"])
          ELSE m.f["average_socket_power"])
    ELSE m.f["average_socket_power"]

\* GpuMetrics::get_activity
get_activity(m) == m.f["average_gfx_activity"]

\* 0.0
ZeroRatio == Ratio(0, 1)

\* an efficiency that divides whatever the divisor is
efficiency_unguarded(activity, divisor) == Ratio(activity, divisor)

\* `if d > 0.0 { activity / d } else { 0.0 }` of the two efficiencies
efficiency(activity, divisor) ==
    IF divisor > 0 THEN Ratio(activity, divisor) ELSE ZeroRatio

\* GpuMetrics::get_power_efficiency
get_power_efficiency(m) == efficiency(get_activity(m), get_power(m))

\* GpuMetrics::get_thermal_efficiency
get_thermal_efficiency(m) == efficiency(get_activity(m), get_temperature(m)[1])

\* the u16 values given to the fields
U16Samples == {0, 1, 60, 80, 200, 65535}

EfficiencyRecords ==
    { V1Record(t, p, c, a) :
        t \in U16Samples, p \in U16Samples,
        c \in {None} \cup { Some(v) : v \in U16Samples }, a \in U16Samples }
    \cup { V2Record(t, p, a) : t \in U16Samples, p \in U16Samples, a \in U16Samples }

\* Efficiency specification: a record is drawn and the two efficiencies are
\* computed from it
InitEfficiency ==
    /\ file = Missing
    /\ result = NoResult
    /\ SensorInit(CacheNone)
    /\ args \in { [op |-> "GpuMetrics", m |-> m] : m \in EfficiencyRecords }
    /\ sysfs = NoCards

PowerEfficiency ==
    /\ result' = [op |-> "get_power_efficiency", r |-> get_power_efficiency(args.m)]
    /\ UNCHANGED InitThrottleVars

ThermalEfficiency ==
    /\ result' = [op |-> "get_thermal_efficiency", r |-> get_thermal_efficiency(args.m)]
    /\ UNCHANGED InitThrottleVars

NextEfficiency ==
    \/ PowerEfficiency
    \/ ThermalEfficiency

SpecEfficiency == InitEfficiency /\ [][NextEfficiency]_vars

\* the power and the primary temperature the struct holds
StoredPower(m) ==
    IF m.variant = "GpuMetricsV1" /\ m.f["current_socket_power"] # None
    THEN m.f["current_socket_power"][1] ELSE m.f["average_socket_power"]
StoredTemperature(m) ==
    IF m.variant = "GpuMetricsV1" THEN m.f["temperature_edge"] ELSE m.f["temperature_gfx"]

\* C15: get_power_efficiency() is 0 when get_power() is 0 and activity over
\* power otherwise; get_thermal_efficiency() is 0 when the primary temperature
\* is 0 and activity over that temperature otherwise.
C15_Efficiency ==
    LET m == args.m
        activity == m.f["average_gfx_activity"]
        Quotient(d) == IF d = 0 THEN [num |-> 0, den |-> 1] ELSE [num |-> activity, den |-> d]
    IN  /\ result.op = "get_power_efficiency" => result.r = Quotient(StoredPower(m))
        /\ result.op = "get_thermal_efficiency" => result.r = Quotient(StoredTemperature(m))

\* C15 witness: activity 80 and power 200 give 80/200
C15_Witness ==
    /\ result.op = "get_power_efficiency"
    /\ args.m.variant = "GpuMetricsV1"
    /\ args.m.f["average_gfx_activity"] = 80
    /\ args.m.f["average_socket_power"] = 200
    /\ args.m.f["current_socket_power"] = None
    /\ result.r = [num |-> 80, den |-> 200]

----------------------------------------------------------------------------
(* Output records: AmdgpuSensor::format_output, Theme::class_for_thresholds *)
(* and format::themed_output.                                              *)

\* Theme::default()
DefaultTheme == [normal |-> "normal", warning |-> "warning", critical |-> "critical"]

\* a class choice that tests the warning threshold first
class_for_thresholds_warning_first(theme, value, warning_threshold, critical_threshold) ==
    IF value >= warning_threshold THEN theme.warning
    ELSE IF value >= critical_threshold THEN theme.critical
    ELSE theme.normal

\* Theme::class_for_thresholds
class_for_thresholds(theme, value, warning_threshold, critical_threshold) ==
    IF value >= critical_threshold THEN theme.critical
    ELSE IF value >= warning_threshold THEN theme.warning
    ELSE theme.normal

\* a WaybarOutput
WaybarOutput(text, tooltip, class, percentage) ==
    [text |-> text, tooltip |-> tooltip, class |-> class, percentage |-> percentage]

\* format::themed_output
themed_output(text, tooltip, percentage, value, warning_threshold, critical_threshold, theme) ==
    WaybarOutput(text, tooltip,
                 Some(class_for_thresholds(theme, value, warning_threshold,
                                           critical_threshold)),
                 percentage)

\* `x as u8` of a u16: the low eight bits
u16_as_u8(x) == x % 256

\* `x as u8` of an f64 that is a whole number: saturating
f64_as_u8(x) == Max(0, Min(255, x))

\* `((value as f64 / critical) * 100.0) as u8`: the values the cast can give.
\* 0.0 / 0.0 is NaN and casts to 0, a positive value over 0.0 is infinite and
\* casts to 255, a quotient below zero casts to 0.  The cast truncates; when
\* value * 100 / critical is a whole number q the rounded product lies within
\* one unit in the last place of q, so the cast gives q or q - 1.
percent_of_critical(value, critical) ==
    IF critical = 0 THEN (IF value = 0 THEN {0} ELSE {255})
    ELSE IF critical < 0 THEN {0}
    ELSE LET q == (value * 100) \div critical
         IN  IF (value * 100) % critical = 0 /\ q > 0
             THEN {f64_as_u8(q), f64_as_u8(q - 1)}
             ELSE {f64_as_u8(q)}

\* one part of a display text: the field shown and its value
Part(field, v) == <<field, v>>

\* the parts of `flags` that are set, in order
RECURSIVE Shown(_)
Shown(flags) ==
    IF flags = << >> THEN << >>
    ELSE (IF Head(flags)[1] THEN <<Head(flags)[2]>> ELSE << >>) \o Shown(Tail(flags))

\* the fields of OutputFormat::Custom the model uses
CustomFields == <<"power", "bogus", "temp">>

\* AmdgpuSensor::format_output: the (text, primary value, percentage) triples
\* the call can return.  The memory, frequency and fan readings are zero in
\* the records used here, so the memory part is never shown and the other
\* two show 0.
format_output(st, m) ==
    LET temp == get_temperature(m)[1]
        power == get_power(m)
        activity == get_activity(m)
        Triple(text, value, percentage) ==
            [text |-> text, value |-> value, percentage |-> percentage]
        compact == Shown(<< <<st.show_temperature, Part("temp", temp)>>,
                            <<st.show_power, Part("power", power)>>,
                            <<st.show_utilization, Part("activity", activity)>>,
                            <<st.show_frequency, Part("frequency", 0)>> >>)
        custom == Shown([i \in DOMAIN CustomFields |->
                           <<CustomFields[i] \in {"temp", "power", "activity"},
                             CASE CustomFields[i] = "temp" -> Part("temp", temp)
                               [] CustomFields[i] = "power" -> Part("power", power)
                               [] OTHER -> Part("activity", activity)>>])
    IN  CASE st.output_format = "Compact" ->
               { Triple(IF compact = << >> THEN <<Part("activity", activity)>> ELSE compact,
                        temp, Some(u16_as_u8(activity))) }
          [] st.output_format = "Detailed" ->
               { Triple(<<Part("temp", temp), Part("power", power),
                          Part("activity", activity), Part("frequency", 0)>>,
                        temp, Some(u16_as_u8(activity))) }
          [] st.output_format = "Minimal" ->
               { Triple(<<Part("temp", temp)>>, temp, None) }
          [] st.output_format = "Power" ->
               { Triple(<<Part("power", power)>>, power, Some(p)) :
                   p \in percent_of_critical(power, st.power_critical) }
          [] st.output_format = "Activity" ->
               { Triple(<<Part("activity", activity)>>, activity,
                        Some(u16_as_u8(activity))) }
          [] st.output_format = "Thermal" ->
               { Triple(<<Part("temp", temp)>>, temp, Some(p)) :
                   p \in percent_of_critical(temp, st.temp_critical) }
          [] st.output_format = "Performance" ->
               { Triple(<<Part("frequency", 0), Part("power", power)>>, temp,
                        Some(u16_as_u8(activity))) }
          [] st.output_format = "Custom" ->
               { Triple(IF custom = << >> THEN <<Part("temp", temp)>> ELSE custom,
                        temp, Some(u16_as_u8(activity))) }

\* the activity thresholds of AmdgpuSensor::read
ActivityWarning == 70
ActivityCritical == 90

\* AmdgpuSensor::read once read_metrics_with_recovery has returned `m`: the
\* records the call can return.  The tooltip is kept as the record it is
\* built from.
read_output(st, m) ==
    LET thresholds ==
            CASE st.output_format = "Power" -> <<st.power_warning, st.power_critical>>
              [] st.output_format = "Activity" -> <<ActivityWarning, ActivityCritical>>
              [] OTHER -> <<st.temp_warning, st.temp_critical>>
    IN  { themed_output(o.text, Some(m), o.percentage, o.value,
                        thresholds[1], thresholds[2], DefaultTheme) :
            o \in format_output(st, m) }

\* the u16 values given to temperature, power and activity
OutputSamples == {0, 100, 101, 300, 65535}

OutputRecords ==
    { V1Record(t, p, None, a) : t \in OutputSamples, p \in OutputSamples, a \in OutputSamples }
    \cup { V2Record(t, p, a) : t \in OutputSamples, p \in OutputSamples, a \in OutputSamples }

OutputFormats ==
    {"Compact", "Detailed", "Minimal", "Power", "Activity", "Thermal", "Performance",
     "Custom"}

\* the temperature thresholds of a sensor: the builder's defaults, a pair
\* configure() stored with the warning above the critical one, and a pair the
\* builder accepts with a critical threshold of zero
TempThresholds == { <<75, 90>>, <<95, 60>>, <<-1, 0>> }

\* the power thresholds of a sensor: the builder's defaults and a pair the
\* builder accepts with a critical threshold of zero
PowerThresholds == { <<200, 250>>, <<-1, 0>> }

OutputSettings ==
    { Settings(DefaultConfig, t[1], t[2], p[1], p[2], format, TRUE, TRUE, TRUE, FALSE, FALSE) :
        t \in TempThresholds, p \in PowerThresholds, format \in OutputFormats }

\* the values and thresholds given to themed_output on its own
ThresholdSamples == {60, 80, 95}

\* Output specification: a sensor with the given settings formats the record
\* its read returned, and themed_output is applied to values and thresholds
InitOutput ==
    /\ file = Missing
    /\ result = NoResult
    /\ now = 0
    /\ cache_strategy = CacheNone
    /\ cache = None
    /\ memory_map = None
    /\ error_count = 0
    /\ last_successful_read = None
    /\ last_metrics = None
    /\ consecutive_errors = 0
    /\ last_error_time = None
    /\ ret = [op |-> "none"]
    /\ failed_since_ok = 0
    /\ settings \in OutputSettings
    /\ stdout = << >>
    /\ args \in { [op |-> "GpuMetrics", m |-> m] : m \in OutputRecords }
    /\ sysfs = NoCards

ReadOutput ==
    /\ \E out \in read_output(settings, args.m) : result' = [op |-> "read", r |-> out]
    /\ UNCHANGED InitThrottleVars

ThemedOutput ==
    /\ \E value \in ThresholdSamples, warning \in ThresholdSamples,
          critical \in ThresholdSamples :
           result' = [op |-> "themed_output", value |-> value, warning |-> warning,
                      critical |-> critical,
                      r |-> themed_output(<< >>, None, None, value, warning, critical,
                                          DefaultTheme)]
    /\ UNCHANGED InitThrottleVars

NextOutput ==
    \/ ReadOutput
    \/ ThemedOutput

SpecOutput == InitOutput /\ [][NextOutput]_vars

\* C16 (as claimed): the percentage of every record read() returns is absent
\* or within 0..=100, whatever the decoded temperature, power and activity,
\* the critical thresholds and the output format.
C16_PercentageInRange ==
    result.op = "read" =>
        \/ result.r.percentage = None
        \/ result.r.percentage[1] \in 0..100

\* C17: themed_output gives the theme's critical class iff the value is at or
\* above the critical threshold, the warning class iff the value is at or
\* above the warning threshold and below the critical one, and the normal
\* class otherwise.
C17_ThresholdClass ==
    result.op = "themed_output" =>
        LET class == result.r.class
            value == result.value
        IN  /\ class = <<"critical">> <=> value >= result.critical
            /\ class = <<"warning">> <=>
                   (result.warning <= value /\ value < result.critical)
            /\ class = <<"normal">> <=>
                   ~(value >= result.critical)
                   /\ ~(result.warning <= value /\ value < result.critical)

\* C17 witness: with the warning threshold above the critical one a value
\* between the two is critical
C17_Witness ==
    /\ result.op = "themed_output"
    /\ result.warning = 95
    /\ result.critical = 60
    /\ result.value = 80
    /\ result.r.class = <<"critical">>

----------------------------------------------------------------------------
(* The sysfs sensor of amdgpu/mod.rs and the loop of the binary (main.rs). *)

\* the content of a sysfs attribute: one line of text
Line(text) == <<text, "\n">>

\* str::trim of an attribute's content
trim(content) == content[1]

\* a text of decimal digits and a text that is not a number
Digits(n) == [digits |-> n]
Word(s) == [word |-> s]

\* the names of the entries of /sys/class/drm, as the pieces the code tests
CardName(n) == <<"card", n>>
ConnectorName(n, connector) == <<"card", n, "-", connector>>

\* an entry of /sys/class/drm: its name and, under its device directory, the
\* vendor attribute, gpu_busy_percent, whether gpu_metrics is present, and
\* hwmon/<amdgpu>/temp1_input.  An attribute is None when the file is absent.
Card(name, vendor, busy, metrics, temp) ==
    [name |-> name, vendor |-> vendor, gpu_busy_percent |-> busy,
     gpu_metrics |-> metrics, temp1_input |-> temp]

\* <entry>/device
DevicePath(card) == <<"/sys/class/drm", card.name, "device">>

\* Result::Ok(v) of a call that returns something else than metrics
Returned(v) == [tag |-> "Ok", v |-> v]

\* str::parse::<u16> / str::parse::<u32>: the text is a number below `limit`
parse_uint(text, limit) == "digits" \in DOMAIN text /\ text.digits < limit

\* AmdgpuSensor::read_file_u16 / read_file_u32 on an attribute
read_file_uint(attr, limit) ==
    IF attr = None THEN IoErr("No such file or directory")
    ELSE IF parse_uint(trim(attr[1]), limit) THEN Returned(trim(attr[1]).digits)
    ELSE Err("Parse", "Failed to parse", {})

\* the first value above u16::MAX, and the limit used for u32: u32::MAX + 1
\* is beyond the integers of TLC, so the largest of these stands for
\* it (every number the attributes hold is far below)
U16Limit == 65536
U32Limit == 2147483647

\* AmdgpuSensor::read_temperature: temp1_input in millidegrees, 50 without it
DefaultTemperature == 50
read_temperature(card) ==
    IF card.temp1_input = None THEN Returned(DefaultTemperature)
    ELSE LET millicelsius == read_file_uint(card.temp1_input, U32Limit)
         IN  IF millicelsius.tag = "Ok" THEN Returned((millicelsius.v \div 1000) % U16Limit)
             ELSE millicelsius

\* the frequency read_current_frequency gives without pp_dpm_sclk
DefaultFrequency == 800

\* AmdgpuSensor::read_sysfs_metrics.  The hwmon directory holds neither
\* power1_average nor pwm1 and the device no pp_dpm_sclk, so power is 0,
\* the fan speed 0 and the frequency the default.
read_sysfs_metrics(card) ==
    LET temp == read_temperature(card)
        activity == read_file_uint(card.gpu_busy_percent, U16Limit)
    IN  IF temp.tag # "Ok" THEN temp
        ELSE IF activity.tag # "Ok" THEN activity
        ELSE Returned([temperature_edge |-> temp.v, gpu_activity |-> activity.v,
                       socket_power |-> 0, frequency |-> DefaultFrequency,
                       fan_speed |-> 0])

\* the fields of the AmdgpuSensor of amdgpu/mod.rs
SysfsSensor(drm_path, tw, tc, format, config) ==
    [drm_path |-> drm_path, temp_warning |-> tw, temp_critical |-> tc,
     format |-> format, config |-> config]

\* `((x as f64 / max) * 100.0).min(100.0) as u8`
percent_capped(x, max) == { Min(100, p) : p \in percent_of_critical(x, max) }

\* the power format_power takes for 100 percent, and its thresholds
PowerScale == 300
PowerWarning == 200
PowerCritical == 250

\* AmdgpuSensor::build_display_text
build_display_text(config, metrics) ==
    LET custom == config.custom
        PartOf(field) ==
            CASE field = "temperature" -> <<Part("temp", metrics.temperature_edge)>>
              [] field = "power" -> <<Part("power", metrics.socket_power)>>
              [] field = "utilization" -> <<Part("activity", metrics.gpu_activity)>>
              [] OTHER -> << >>
        RECURSIVE Ordered(_)
        Ordered(order) ==
            IF order = << >> THEN << >>
            ELSE (IF Head(order).t = "String" THEN PartOf(Head(order).s) ELSE << >>)
                     \o Ordered(Tail(order))
        parts ==
            IF HasKey(custom, "display_order") /\ custom["display_order"].t = "Array"
            THEN Ordered(custom["display_order"].a)
            ELSE Shown(<< <<BoolOr(custom, "show_temperature", TRUE),
                            Part("temp", metrics.temperature_edge)>>,
                          <<BoolOr(custom, "show_power", TRUE),
                            Part("power", metrics.socket_power)>>,
                          <<BoolOr(custom, "show_utilization", TRUE),
                            Part("activity", metrics.gpu_activity)>> >>)
    IN  IF parts = << >> THEN <<Part("activity", metrics.gpu_activity)>> ELSE parts

\* format_compact, format_detailed, format_minimal, format_power and
\* format_activity: the records the call can return
sysfs_format(sensor, metrics) ==
    LET temp == metrics.temperature_edge
        power == metrics.socket_power
        activity == metrics.gpu_activity
        Thermal(text) ==
            { themed_output(text, Some(metrics), Some(p), temp, sensor.temp_warning,
                            sensor.temp_critical, DefaultTheme) :
                p \in percent_capped(temp, 100) }
    IN  CASE sensor.format = "Compact" -> Thermal(build_display_text(sensor.config, metrics))
          [] sensor.format = "Detailed" ->
               Thermal(<<Part("temp", temp), Part("power", power),
                         Part("activity", activity),
                         Part("frequency", metrics.frequency)>>)
          [] sensor.format = "Minimal" -> Thermal(<<Part("temp", temp)>>)
          [] sensor.format = "Power" ->
               { themed_output(<<Part("power", power)>>, Some(metrics), Some(p), power,
                               PowerWarning, PowerCritical, DefaultTheme) :
                   p \in percent_capped(power, PowerScale) }
          [] sensor.format = "Activity" ->
               { themed_output(<<Part("activity", activity)>>, Some(metrics),
                               Some(u16_as_u8(activity)), activity,
                               ActivityWarning, ActivityCritical, DefaultTheme) }

\* <AmdgpuSensor as Sensor>::read of amdgpu/mod.rs: the results the call can
\* return with the device directory in the given state
sysfs_read(sensor, card) ==
    LET metrics == read_sysfs_metrics(card)
    IN  IF metrics.tag # "Ok" THEN {metrics}
        ELSE { Returned(out) : out \in sysfs_format(sensor, metrics.v) }

\* Display of a SensorError
Display(e) ==
    CASE e.kind = "Io" -> <<"I/O error: ", e.message>>
      [] e.kind = "Parse" -> <<"Parse error: ", e.message>>
      [] e.kind = "Unavailable" -> <<"Sensor unavailable: ", e.message>>
      [] OTHER -> <<"error: ", e.message>>

\* serde_json::to_string of a WaybarOutput and println!: one line holding the
\* text and the fields that are not None
Json(output) ==
    [name \in {"text"} \cup { k \in {"tooltip", "class", "percentage"} : output[k] # None } |->
       IF name = "text" THEN output.text ELSE output[name][1]]

\* the record the loop prints for a failed read
error_output(e) ==
    WaybarOutput("GPU Error", Some(<<"Error: ", Display(e)>>), Some("error"), None)

\* an iteration that propagates a failed read with `?`
poll_iteration_propagating(r) ==
    IF r.tag = "Ok" THEN [print |-> <<Json(r.v)>>, pc |-> "loop"]
    ELSE [print |-> << >>, pc |-> "exit"]

\* one iteration of the loop of main once read() has returned `r`: what is
\* printed and where control goes
poll_iteration(r) ==
    IF r.tag = "Ok" THEN [print |-> <<Json(r.v)>>, pc |-> "loop"]
    ELSE [print |-> <<Json(error_output(r))>>, pc |-> "loop"]

\* the --once branch of main once read() has returned `r`
once_branch(r) ==
    IF r.tag = "Ok" THEN [print |-> <<Json(r.v)>>, pc |-> "exit"]
    ELSE [print |-> << >>, pc |-> "exit"]

\* the AMD PCI vendor id as the vendor attribute spells it
AmdVendor == Word("0x1002")

\* the card a device path belongs to; a directory that is gone has no
\* attribute left
CardAt(cards, path) ==
    IF \E i \in DOMAIN cards : DevicePath(cards[i]) = path
    THEN cards[CHOOSE i \in DOMAIN cards : DevicePath(cards[i]) = path]
    ELSE Card(path[2], None, None, FALSE, None)

\* find_amd_gpu_drm_path on an existing /sys/class/drm whose entries read_dir
\* yields in the order of `cards`
RECURSIVE find_amd_gpu_drm_path(_)
find_amd_gpu_drm_path(cards) ==
    IF cards = << >>
    THEN Err("Unavailable", "No AMD GPU found with sysfs support", {})
    ELSE LET card == Head(cards)
             name == card.name
         IN  IF /\ name[1] = "card"
                /\ ~(\E i \in DOMAIN name : name[i] = "-")
                /\ card.vendor # None
                /\ trim(card.vendor[1]) = AmdVendor
                /\ card.gpu_busy_percent # None
             THEN Returned(DevicePath(card))
             ELSE find_amd_gpu_drm_path(Tail(cards))

\* the OutputFormat a --format string selects
parse_format(format_str) ==
    CASE format_str = "compact" -> "Compact"
      [] format_str = "detailed" -> "Detailed"
      [] format_str = "minimal" -> "Minimal"
      [] format_str = "power" -> "Power"
      [] format_str = "activity" -> "Activity"
      [] OTHER -> "Compact"

\* AmdgpuSensor::new of amdgpu/mod.rs
sysfs_new(file_arg, tw, tc, format_str, cards) ==
    LET drm_path == find_amd_gpu_drm_path(cards)
    IN  IF drm_path.tag # "Ok" THEN drm_path
        ELSE Returned(SysfsSensor(drm_path.v, tw, tc, parse_format(format_str),
                                  DefaultConfig))

\* number of ticks of the interval
MaxTicks == 3

\* the states of the polled device directory
PollCards ==
    { Card(CardName("0"), Some(Line(AmdVendor)), busy, TRUE, temp) :
        busy \in {None, Some(Line(Digits(17))), Some(Line(Word("busy")))},
        temp \in {None, Some(Line(Digits(95000))), Some(Line(Word("hot")))} }

\* the --format values
SysfsFormats == {"compact", "detailed", "minimal", "power", "activity", "thermal"}

\* the --temp-warning and --temp-critical defaults
DefaultTempWarning == 80
DefaultTempCritical == 90

\* Polling specification: main has built the sensor on a card that had its
\* gpu_busy_percent, configured it, and runs the --once branch or the loop
InitPoll ==
    /\ file = Missing
    /\ result = NoResult
    /\ now = 0
    /\ cache_strategy = CacheNone
    /\ cache = None
    /\ memory_map = None
    /\ error_count = 0
    /\ last_successful_read = None
    /\ last_metrics = None
    /\ consecutive_errors = 0
    /\ last_error_time = None
    /\ ret = [op |-> "none"]
    /\ failed_since_ok = 0
    /\ sysfs \in { <<c>> : c \in PollCards }
    /\ sysfs_new(None, DefaultTempWarning, DefaultTempCritical, "compact", sysfs).tag = "Ok"
    /\ settings \in { sysfs_new(None, DefaultTempWarning, DefaultTempCritical, format,
                                sysfs).v : format \in SysfsFormats }
    /\ stdout = << >>
    /\ args \in { [op |-> "main", once |-> once, pc |-> IF once THEN "once" ELSE "loop"] :
                    once \in BOOLEAN }

\* interval.tick().await, read() and the println! of its arm
PollTick ==
    /\ args.pc = "loop"
    /\ now < MaxTicks
    /\ now' = now + 1
    /\ \E r \in sysfs_read(settings, CardAt(sysfs, settings.drm_path)) :
         /\ ret' = [op |-> "read", r |-> r]
         /\ stdout' = stdout \o poll_iteration(r).print
         /\ args' = [args EXCEPT !.pc = poll_iteration(r).pc]
    /\ UNCHANGED <<settings, sysfs, file, result, cache_strategy, cache, memory_map,
                   error_count, last_successful_read, last_metrics, consecutive_errors,
                   last_error_time, failed_since_ok>>

\* `let output = amdgpu_sensor.read()?; println!(..)` of --once
OnceRead ==
    /\ args.pc = "once"
    /\ \E r \in sysfs_read(settings, CardAt(sysfs, settings.drm_path)) :
         /\ ret' = [op |-> "read", r |-> r]
         /\ stdout' = stdout \o once_branch(r).print
         /\ args' = [args EXCEPT !.pc = once_branch(r).pc]
    /\ UNCHANGED <<settings, sysfs, now, file, result, cache_strategy, cache, memory_map,
                   error_count, last_successful_read, last_metrics, consecutive_errors,
                   last_error_time, failed_since_ok>>

\* the driver changes or removes attributes of the device directory
SysfsChange ==
    /\ \E c \in PollCards : c # sysfs[1] /\ sysfs' = <<c>>
    /\ UNCHANGED <<settings, stdout, args, now, file, result, cache_strategy, cache,
                   memory_map, error_count, last_successful_read, last_metrics,
                   consecutive_errors, last_error_time, ret, failed_since_ok>>

NextPoll ==
    \/ PollTick
    \/ OnceRead
    \/ SysfsChange

SpecPoll == InitPoll /\ [][NextPoll]_vars

\* a step in which the interval of the loop ticks
PollStep == args.pc = "loop" /\ now' = now + 1

\* C12: in polling mode every tick appends exactly one line to stdout, the
\* output of read() when it succeeds and otherwise a record of class "error"
\* whose tooltip holds the error text; control stays in the loop after a
\* failed read, so the loop has printed one line per tick and the next tick
\* reads again.
C12_PollingLoop ==
    /\ [](~args.once => /\ args.pc = "loop"
                        /\ Len(stdout) = now
                        /\ now < MaxTicks => ENABLED PollTick)
    /\ [][PollStep =>
            /\ Len(stdout') = Len(stdout) + 1
            /\ SubSeq(stdout', 1, Len(stdout)) = stdout
            /\ ret'.op = "read"
            /\ ret'.r \in sysfs_read(settings, sysfs[1])
            /\ DevicePath(sysfs[1]) = settings.drm_path
            /\ ret'.r.tag = "Ok" => stdout'[Len(stdout')] = Json(ret'.r.v)
            /\ ret'.r.tag = "Err" =>
                 LET line == stdout'[Len(stdout')]
                 IN  /\ DOMAIN line = {"text", "tooltip", "class"}
                     /\ line.class = "error"
                     /\ line.tooltip = <<"Error: ", Display(ret'.r)>>
                     /\ Display(ret'.r)[2] = ret'.r.message]_vars

\* C12 witness: a failed read printed an error record and the read of the
\* next tick succeeded
C12_Witness ==
    /\ ~args.once
    /\ Len(stdout) = 2
    /\ "class" \in DOMAIN stdout[1]
    /\ stdout[1].class = "error"
    /\ ret.op = "read"
    /\ ret.r.tag = "Ok"
    /\ stdout[2] = Json(ret.r.v)

----------------------------------------------------------------------------
(* Construction: auto-detection, AmdgpuSensorBuilder::build and            *)
(* AmdgpuSensor::new of amdgpu/mod.rs.                                     *)

\* <entry>/device/gpu_metrics
MetricsPath(card) == DevicePath(card) \o <<"gpu_metrics">>

\* Path::exists of a path to a gpu_metrics file
exists(path, cards) ==
    \E i \in DOMAIN cards : MetricsPath(cards[i]) = path /\ cards[i].gpu_metrics

\* find_gpu_metrics_file: the first match of /sys/class/drm/card*/device/gpu_metrics
\* (the second pattern names the same files through /sys/devices)
RECURSIVE find_gpu_metrics_file(_)
find_gpu_metrics_file(cards) ==
    IF cards = << >> THEN Err("Unavailable", "No AMD GPU found", {})
    ELSE IF Head(cards).name[1] = "card" /\ Head(cards).gpu_metrics
    THEN Returned(Some(MetricsPath(Head(cards))))
    ELSE find_gpu_metrics_file(Tail(cards))

\* GpuDiscovery::find_primary_gpu: the gpu_metrics file of the first card
\* whose vendor attribute is the AMD id, if there is one
RECURSIVE find_primary_gpu(_)
find_primary_gpu(cards) ==
    IF cards = << >> THEN Returned(None)
    ELSE IF /\ Head(cards).vendor # None
            /\ trim(Head(cards).vendor[1]) = AmdVendor
            /\ Head(cards).gpu_metrics
    THEN Returned(Some(MetricsPath(Head(cards))))
    ELSE find_primary_gpu(Tail(cards))

\* GpuDiscovery::get_device_info: it succeeds or fails
get_device_info(path) ==
    { Returned(path), Err("Unavailable", "GPU discovery failed", {}) }

\* an AmdgpuSensorBuilder
Builder(metrics_path, auto_detect, tw, tc, pw, pc) ==
    [op |-> "AmdgpuSensorBuilder", metrics_path |-> metrics_path,
     auto_detect |-> auto_detect, temp_warning |-> tw, temp_critical |-> tc,
     power_warning |-> pw, power_critical |-> pc]

TempThresholdMessage ==
    "Temperature warning threshold must be less than critical threshold"
PowerThresholdMessage == "Power warning threshold must be less than critical threshold"

\* AmdgpuSensorBuilder::build: the results the call can return
build(b, cards) ==
    LET found == find_primary_gpu(cards)
        metrics_path ==
            IF b.auto_detect
            THEN (IF found.tag # "Ok" THEN found
                  ELSE IF found.v = None
                  THEN Err("Unavailable", "No compatible AMD GPU found", {})
                  ELSE Returned(found.v[1]))
            ELSE (IF b.metrics_path = None
                  THEN Err("Config", "No GPU metrics path specified", {})
                  ELSE Returned(b.metrics_path[1]))
    IN  IF metrics_path.tag # "Ok" THEN {metrics_path}
        ELSE IF ~exists(metrics_path.v, cards)
        THEN { Err("Unavailable", "File does not exist", {}) }
        ELSE IF b.temp_warning >= b.temp_critical
        THEN { Err("Config", TempThresholdMessage, {}) }
        ELSE IF b.power_warning >= b.power_critical
        THEN { Err("Config", PowerThresholdMessage, {}) }
        ELSE { IF info.tag # "Ok" THEN info
               ELSE Returned([metrics_path |-> metrics_path.v,
                              settings |-> Settings(DefaultConfig, b.temp_warning,
                                                    b.temp_critical, b.power_warning,
                                                    b.power_critical, "Compact",
                                                    TRUE, TRUE, TRUE, FALSE, FALSE)]) :
                 info \in get_device_info(metrics_path.v) }

\* the entries of /sys/class/drm: a first card, alone or followed by a second
\* card or by a connector entry
DetectCards(name) ==
    { Card(name, vendor, busy, metrics, None) :
        vendor \in {None, Some(Line(AmdVendor)), Some(Line(Word("0x10de")))},
        busy \in {None, Some(Line(Digits(17)))},
        metrics \in BOOLEAN }

DrmEntries ==
    {NoCards}
    \cup { <<c>> : c \in DetectCards(CardName("0")) }
    \cup { <<c, d>> : c \in DetectCards(CardName("0")),
                      d \in DetectCards(CardName("1"))
                            \cup DetectCards(ConnectorName("0", "eDP")) }

\* the paths handed to AmdgpuSensorBuilder::new and to --file
ExplicitPaths ==
    { MetricsPath(Card(CardName("0"), None, None, FALSE, None)),
      MetricsPath(Card(CardName("1"), None, None, FALSE, None)),
      <<"/tmp", "gpu_metrics">> }

\* the builders: new(path) or auto_detect(), with the default thresholds or
\* with a warning threshold at or above the critical one
Builders ==
    { Builder(path, path = None, t[1], t[2], p[1], p[2]) :
        path \in {None} \cup { Some(e) : e \in ExplicitPaths },
        t \in { <<75, 90>>, <<90, 80>>, <<90, 90>> },
        p \in { <<200, 250>>, <<250, 200>> } }

\* the command lines: with and without --file
CommandLines ==
    { [op |-> "main", file |-> f] : f \in {None} \cup { Some(e) : e \in ExplicitPaths } }

\* Construction specification: /sys/class/drm holds the given entries, and a
\* builder is built, the binary constructs its sensor, or a detection
\* function is called
InitDetect ==
    /\ file = Missing
    /\ result = NoResult
    /\ SensorInit(CacheNone)
    /\ args \in Builders \cup CommandLines
    /\ sysfs \in DrmEntries

Build ==
    /\ args.op = "AmdgpuSensorBuilder"
    /\ \E r \in build(args, sysfs) : result' = [op |-> "build", r |-> r]
    /\ UNCHANGED InitThrottleVars

New ==
    /\ args.op = "main"
    /\ result' = [op |-> "new",
                  r |-> sysfs_new(args.file, DefaultTempWarning, DefaultTempCritical,
                                  "compact", sysfs)]
    /\ UNCHANGED InitThrottleVars

FindAmdGpuDrmPath ==
    /\ result' = [op |-> "find_amd_gpu_drm_path", r |-> find_amd_gpu_drm_path(sysfs)]
    /\ UNCHANGED InitThrottleVars

FindGpuMetricsFile ==
    /\ result' = [op |-> "find_gpu_metrics_file", r |-> find_gpu_metrics_file(sysfs)]
    /\ UNCHANGED InitThrottleVars

NextDetect ==
    \/ Build
    \/ New
    \/ FindAmdGpuDrmPath
    \/ FindGpuMetricsFile

SpecDetect == InitDetect /\ [][NextDetect]_vars

\* C18 (as claimed): build() fails with an error that mentions the warning
\* threshold whenever temp_warning >= temp_critical or power_warning >=
\* power_critical, with an explicit path and with auto-detection alike.
C18_ThresholdError ==
    (/\ result.op = "build"
     /\ (args.temp_warning >= args.temp_critical
         \/ args.power_warning >= args.power_critical))
        => /\ result.r.tag = "Err"
           /\ result.r.message \in {TempThresholdMessage, PowerThresholdMessage}

\* C19 (as claimed): a sensor constructed with an explicit path, by
\* AmdgpuSensorBuilder::new(path) or by the binary's --file, is bound to that
\* path, and a construction with an explicit path does not depend on
\* auto-detection.
C19_ExplicitPathBound ==
    /\ (result.op = "build" /\ ~args.auto_detect /\ result.r.tag = "Ok")
           => result.r.v.metrics_path = args.metrics_path[1]
    /\ (result.op = "new" /\ args.file # None)
           => /\ result.r.tag = "Ok" => result.r.v.drm_path \o <<"gpu_metrics">> = args.file[1]
              /\ result.r.tag = "Err" =>
                     result.r.message # "No AMD GPU found with sysfs support"

\* the cards with the AMD vendor id and a gpu_metrics file
AmdMetricsCards ==
    { i \in DOMAIN sysfs :
        /\ sysfs[i].vendor = Some(Line(AmdVendor))
        /\ sysfs[i].gpu_metrics }

\* C20 (as claimed): auto-detection returns a device only of a card whose
\* vendor attribute holds 0x1002 and whose device directory holds
\* gpu_metrics, and reports Unavailable when no card is such.
C20_DetectionCondition ==
    /\ result.op = "find_amd_gpu_drm_path" =>
           IF result.r.tag = "Ok"
           THEN \E i \in AmdMetricsCards : DevicePath(sysfs[i]) = result.r.v
           ELSE result.r.kind = "Unavailable"
    /\ result.op = "find_gpu_metrics_file" =>
           IF result.r.tag = "Ok"
           THEN \E i \in AmdMetricsCards : Some(MetricsPath(sysfs[i])) = result.r.v
           ELSE result.r.kind = "Unavailable"
    /\ (result.op \in {"find_amd_gpu_drm_path", "find_gpu_metrics_file"}
        /\ AmdMetricsCards = {}) => result.r.tag = "Err"

----------------------------------------------------------------------------
(* Further decoding claims, under the decoding specification *)

\* the body is at least as long as the base layout of the header's family
\* (of the longer family when the header names neither)
LongEnough ==
    BodyLen >= (IF FileHeader.format_revision = 1 THEN V1MinLen ELSE V2MinLen)

\* C22 (as claimed): Header::is_supported() is true exactly for the pairs
\* {(1,0..=3), (2,0..=1)}; on the read paths of metrics.rs a supported header
\* with a long enough body decodes, and an unsupported one fails.
C22_IsSupportedMatchesDispatch ==
    (DispatcherReached /\ result.op \in MetricsRsOps)
        => /\ is_supported(FileHeader) <=> Pair(FileHeader) \in SupportedPairs
           /\ (is_supported(FileHeader) /\ LongEnough) => result.r.tag = "Ok"
           /\ ~is_supported(FileHeader) => result.r.tag = "Err"

\* C25 (as claimed): a layout parser returns a Parse error or a record and
\* never indexes past the end of the body it was given.
C25_NoReadPastBody ==
    (DispatcherReached /\ result.r.calls \cap LayoutParsers # {})
        => ~(result.r.tag = "Panic" /\ result.r.message = "index out of bounds")

\* the panics of the body-length computation
DataSizeMessages == { DataSizePanic(profile).message : profile \in Builds }

\* C26 (as claimed): with 0 < structure_size <= 1024 the body length
\* structure_size - 4 does not underflow: the read returns a record or an
\* error value and does not panic in that computation.
C26_NoUnderflow ==
    (/\ Decoded
     /\ result.op \in {"read_direct", "reader_read_file"}
     /\ FileHeader.structure_size \in 1..MaxStructureSize)
        => ~(result.r.tag = "Panic" /\ result.r.message \in DataSizeMessages)

\* the bytes of the body a field is decoded from
FieldBytes(fd) == fd.off .. (FieldEnd(fd) - 1)

\* the fields the parser that returned `r` decoded
DecodedFields(op, header, data_len) ==
    IF op \in MetricsRsOps
    THEN (IF header.format_revision = 1
          THEN V1BaseFields \cup V1Present(header, [i \in 1..data_len |-> 0])
          ELSE V2BaseFields \cup V2Present(header, [i \in 1..data_len |-> 0]))
    ELSE (IF header.format_revision = 1 THEN ReaderV1Fields ELSE ReaderV2Fields)

\* C27 (as claimed): the fields of a decoded record come from pairwise
\* disjoint byte ranges of the body.
C27_DisjointFields ==
    (DispatcherReached /\ result.r.tag = "Ok")
        => \A fd \in DecodedFields(result.op, FileHeader, BodyLen) :
             \A other \in DecodedFields(result.op, FileHeader, BodyLen) :
               fd # other => FieldBytes(fd) \cap FieldBytes(other) = {}


----------------------------------------------------------------------------
(* Further claims on the reader's strategies, under the sensor specification *)

\* the step is a read of a sensor whose reader is MemoryMapped
MappedReadStep == ReadStep /\ cache_strategy.kind = "MemoryMapped"

ParsedAt == IF IsSome(cache) THEN Unwrap(cache).timestamp ELSE Unwrap(last_metrics).time

\* the last good value is the value of the cache entry, never older than it
LastGoodIsCached ==
    (IsSome(last_metrics) /\ IsSome(cache))
        => /\ Unwrap(last_metrics).metrics = Unwrap(cache).metrics
           /\ Unwrap(cache).timestamp <= Unwrap(last_metrics).time

\* C29 (as claimed): every metrics value returned on the recovery path was
\* parsed from the file less than 10 seconds before the read that returns it;
\* a read answered from the reader's cache does not restart the window.
C29_RecoveredValueAge ==
    [][(ReadStep /\ ret'.recovered) => now - ParsedAt < RecoveryWindow]_vars

----------------------------------------------------------------------------
(* Aggressive against Basic: two MetricsReaders driven in lock step.  The
   reader variables hold the one built with Aggressive{max_age,
   change_threshold}; `result.basic` holds the one built with Basic{max_age}.
   Both see the same file, the same clock and the same calls. *)

\* the change_threshold values the Aggressive reader is built with (5.0 is
\* the value of the crate's own tests)
ChangeThresholds == {0, 1, 5}

NewReader == ReaderState(None, None, 0, None)

InitStrategies ==
    /\ file \in SensorFiles
    /\ \E change_threshold \in ChangeThresholds :
          SensorInit(CacheAggressive(MaxAgeSecs, change_threshold))
    /\ result = [op |-> "none", basic |-> NewReader]
    /\ args = NoArgs
    /\ sysfs = NoCards

\* MetricsReader::read_file on both readers
StrategiesRead ==
    \E profile \in Builds :
        LET aggressive == read_file(cache_strategy, CurrentReader, file, now, profile)
            basic == read_file(CacheBasic(cache_strategy.max_age), result.basic, file, now,
                               profile)
        IN  /\ aggressive.r.tag # "Panic"
            /\ IsSome(aggressive.rs.cache)
                  => Unwrap(aggressive.rs.cache).read_count <= MaxReadCount
            /\ IsSome(basic.rs.cache) => Unwrap(basic.rs.cache).read_count <= MaxReadCount
            /\ cache' = aggressive.rs.cache
            /\ memory_map' = aggressive.rs.memory_map
            /\ error_count' = aggressive.rs.error_count
            /\ last_successful_read' = aggressive.rs.last_successful_read
            /\ ret' = [op |-> "read_file", turn |-> Turn, inner |-> aggressive.r,
                       fresh |-> aggressive.fresh, opened |-> aggressive.opened]
            /\ result' = [op |-> "read_file", basic |-> basic.rs, r |-> basic.r,
                          fresh |-> basic.fresh, opened |-> basic.opened]
            /\ UNCHANGED <<settings, stdout, args, sysfs, file, now, cache_strategy,
                           last_metrics, consecutive_errors, last_error_time,
                           failed_since_ok>>

\* MetricsReader::invalidate_cache on both readers
StrategiesInvalidate ==
    LET rs == reader_invalidate_cache(CurrentReader)
    IN  /\ cache' = rs.cache
        /\ memory_map' = rs.memory_map
        /\ ret' = [op |-> "invalidate_cache", turn |-> Turn]
        /\ result' = [op |-> "invalidate_cache",
                      basic |-> reader_invalidate_cache(result.basic)]
        /\ UNCHANGED <<settings, stdout, args, sysfs, file, now, cache_strategy, error_count,
                       last_successful_read, last_metrics, consecutive_errors,
                       last_error_time, failed_since_ok>>

NextStrategies ==
    \/ Tick
    \/ KernelUpdate
    \/ FileRemoved
    \/ FileCreated
    \/ StrategiesRead
    \/ StrategiesInvalidate

SpecStrategies == InitStrategies /\ [][NextStrategies]_vars

\* C24: for the same max_age and the same sequence of reads, file contents,
\* failures and clock values, the reader with Aggressive{max_age,
\* change_threshold} returns what the reader with Basic{max_age} returns,
\* goes to the file exactly when it does, and is left in the same state, for
\* every change_threshold.
C24_AggressiveIsBasic ==
    /\ CurrentReader = result.basic
    /\ result.op = "read_file" =>
          /\ ret.op = "read_file"
          /\ ret.inner = result.r
          /\ ret.fresh = result.fresh
          /\ ret.opened = result.opened

\* C24 witness: with a change_threshold above zero, both readers answered
\* from an entry they had refreshed once, although the file had changed since
C24_Witness ==
    /\ result.op = "read_file"
    /\ cache_strategy.kind = "Aggressive"
    /\ cache_strategy.change_threshold > 0
    /\ ~ret.fresh
    /\ ~result.fresh
    /\ Unwrap(cache).read_count = 2
    /\ file.exists
    /\ DirectRead[file]["release"].tag = "Ok"
    /\ DirectRead[file]["release"].metrics # ret.inner.metrics

----------------------------------------------------------------------------
(* Further claims on configure *)

\* C28 (as claimed): in every state of an AmdgpuSensor, after a successful
\* build() and any sequence of configure() calls, temp_warning is below
\* temp_critical.
C28_ThresholdsOrdered == settings.temp_warning < settings.temp_critical

----------------------------------------------------------------------------
(* display_order: both sensors configured with the same SensorConfig and
   formatting the same readings in the Compact format *)

\* the names display_order lists
OrderNames == {"temperature", "power", "utilization", "frequency", "bogus"}

\* the display_order lists: every list of at most two names
DisplayOrders ==
    {<< >>} \cup { <<String(a)>> : a \in OrderNames }
            \cup { <<String(a), String(b)>> : a \in OrderNames, b \in OrderNames }

\* the configurations handed to configure: a display_order alone or together
\* with show flags that contradict it, and show flags alone
DisplayConfigs ==
    { SensorConfig("order", [k \in {"display_order"} |-> Array(order)]) :
        order \in DisplayOrders }
    \cup { SensorConfig("order and flags",
                        [k \in {"display_order", "show_power", "show_frequency"} |->
                           CASE k = "display_order" -> Array(order)
                             [] k = "show_power" -> Bool(FALSE)
                             [] OTHER -> Bool(TRUE)]) : order \in DisplayOrders }
    \cup { SensorConfig("flags", [k \in {"show_temperature"} |-> Bool(FALSE)]) }

\* the readings: temperature, power and activity
DisplayReadings == { <<40, 30, 20>>, <<95, 0, 100>> }

\* Display specification: a sensor of gpu.rs built with the defaults, and the
\* sensor of amdgpu/mod.rs holding the same configuration
InitDisplay ==
    /\ file \in SensorFiles
    /\ result = NoResult
    /\ SensorInit(CacheNone)
    /\ args = NoArgs
    /\ sysfs = NoCards

\* AmdgpuSensor::configure of gpu.rs; AmdgpuSensor::configure of amdgpu/mod.rs
\* stores the same configuration
DisplayConfigure ==
    \E config \in DisplayConfigs :
        LET inv == sensor_invalidate_cache(CurrentReader)
        IN  /\ settings' = configure(settings, config)
            /\ cache' = inv.rs.cache
            /\ memory_map' = inv.rs.memory_map
            /\ last_metrics' = inv.last_metrics
            /\ ret' = [op |-> "configure", turn |-> Turn, config |-> config]
            /\ UNCHANGED <<file, result, now, cache_strategy, error_count,
                           last_successful_read, consecutive_errors, last_error_time,
                           failed_since_ok, stdout, args, sysfs>>

\* AmdgpuSensor::format_output of gpu.rs on a record with the readings; the
\* result keeps the settings the call ran with
DisplayFormat ==
    \E reading \in DisplayReadings :
        LET m == V1Record(reading[1], reading[2], None, reading[3])
        IN  /\ result' \in { [op |-> "format_output", st |-> settings, reading |-> reading,
                                  text |-> o.text] :
                               o \in format_output(settings, m) }
            /\ UNCHANGED InitThrottleVars

\* AmdgpuSensor::build_display_text of amdgpu/mod.rs on the same readings
DisplayText ==
    \E reading \in DisplayReadings :
        LET metrics == [temperature_edge |-> reading[1], socket_power |-> reading[2],
                        gpu_activity |-> reading[3], frequency |-> DefaultFrequency,
                        fan_speed |-> 0]
        IN  /\ result' = [op |-> "build_display_text", st |-> settings,
                          reading |-> reading,
                          text |-> build_display_text(settings.config, metrics)]
            /\ UNCHANGED InitThrottleVars

NextDisplay ==
    \/ DisplayConfigure
    \/ DisplayFormat
    \/ DisplayText

SpecDisplay == InitDisplay /\ [][NextDisplay]_vars

\* the configuration the call ran with carries a display_order list
HasDisplayOrder ==
    /\ HasKey(result.st.config.custom, "display_order")
    /\ result.st.config.custom["display_order"].t = "Array"

\* the parts of the fields of `known` that `order` names, in the order of the list
RECURSIVE Named(_, _)
Named(order, known) ==
    IF order = << >> THEN << >>
    ELSE (IF Head(order).t = "String" /\ Head(order).s \in DOMAIN known
          THEN <<known[Head(order).s]>> ELSE << >>) \o Named(Tail(order), known)

\* the fields of a reading each sensor knows by name (gpu.rs also knows
\* "memory", which no list here names)
KnownFields(op, reading) ==
    LET common == [name \in {"temperature", "power", "utilization"} |->
                     CASE name = "temperature" -> Part("temp", reading[1])
                       [] name = "power" -> Part("power", reading[2])
                       [] OTHER -> Part("activity", reading[3])]
    IN  IF op = "build_display_text" THEN common
        ELSE [name \in DOMAIN common \cup {"frequency"} |->
                IF name = "frequency" THEN Part("frequency", 0) ELSE common[name]]

\* that list names at least one field the sensor knows, and no name twice
NamesFieldsOnce(op, reading) ==
    LET order == result.st.config.custom["display_order"].a
    IN  /\ Named(order, KnownFields(op, reading)) # << >>
        /\ \A i, j \in DOMAIN order : i # j => order[i] # order[j]

\* C30 (as claimed): when the configuration contains display_order, the
\* Compact display text is made of exactly the known fields the list names,
\* in the order in which the list names them, whatever the show_* flags say;
\* names that are not known fields are ignored.  (Lists that name no known
\* field, or one name twice, are left aside.)
C30_DisplayOrder ==
    (result.op \in {"format_output", "build_display_text"}
     /\ result.st.output_format = "Compact" /\ HasDisplayOrder
     /\ NamesFieldsOnce(result.op, result.reading))
        => result.text = Named(result.st.config.custom["display_order"].a,
                               KnownFields(result.op, result.reading))

----------------------------------------------------------------------------
(* AmdgpuSensor::check_availability of gpu.rs *)

\* the Display of a SensorError (thiserror's #[error] strings)
sensor_error_display(e) ==
    (CASE e.kind = "Parse" -> "Parse error: "
       [] e.kind = "Io" -> "I/O error: "
       [] OTHER -> "Sensor unavailable: ") \o e.message

\* GpuError::MetricsFileError{path, reason}.into(): SensorError::unavailable(reason)
metrics_file_error(reason, calls) == Err("Unavailable", reason, calls)

\* AmdgpuSensor::check_availability at clock value t: what it returns, whether
\* it called read_file, and the reader state after the call
check_availability(strategy, rs, f, t, profile) ==
    IF ~f.exists
    THEN [out |-> metrics_file_error("GPU metrics file no longer exists", {}),
          read |-> FALSE, rs |-> rs]
    ELSE LET rf == read_file(strategy, rs, f, t, profile)
         IN  [out |-> CASE rf.r.tag = "Ok" -> Returned("unit")
                        [] rf.r.tag = "Panic" -> rf.r
                        [] OTHER ->
                             metrics_file_error("Cannot read GPU metrics: "
                                                    \o sensor_error_display(rf.r),
                                                rf.r.calls),
              read |-> TRUE, rs |-> rf.rs]

\* a call of check_availability
CheckAvailability ==
    \E profile \in Builds :
        LET ca == check_availability(cache_strategy, CurrentReader, file, now, profile)
        IN  /\ ca.out.tag # "Panic"
            /\ IsSome(ca.rs.cache) => Unwrap(ca.rs.cache).read_count <= MaxReadCount
            /\ cache' = ca.rs.cache
            /\ memory_map' = ca.rs.memory_map
            /\ error_count' = ca.rs.error_count
            /\ last_successful_read' = ca.rs.last_successful_read
            /\ ret' = [op |-> "check_availability", turn |-> Turn, out |-> ca.out,
                       read |-> ca.read]
            /\ UNCHANGED <<settings, stdout, args, sysfs, file, result, now, cache_strategy,
                           last_metrics, consecutive_errors, last_error_time,
                           failed_since_ok>>

NextAvailability ==
    \/ ConfigTick
    \/ KernelUpdate
    \/ FileRemoved
    \/ FileCreated
    \/ SensorRead
    \/ CheckAvailability

SpecAvailability == Init /\ [][NextAvailability]_vars

\* the step is a call of read() or of check_availability() that returns an error
FailedCall ==
    /\ ret' # ret
    /\ ret'.op \in {"read", "check_availability"}
    /\ ret'.out.tag = "Err"

\* the file at the path exists and its content does not decode
Undecodable == file.exists /\ DirectRead[file]["release"].tag = "Err"

\* C21 (as claimed): read() and check_availability() report an Unavailable
\* error only when there is nothing to read (the bound path does not exist);
\* when the file exists and its content is malformed or of an unsupported
\* version, the error they report is a Parse error.
C21_UnavailableMeansNothingToRead ==
    [][FailedCall =>
          /\ ret'.out.kind = "Unavailable" => ~file.exists
          /\ Undecodable => ret'.out.kind = "Parse"]_vars

=========================================================================
